---- MODULE Spec2Model ----
(***************************************************************************)
(* Model of src/src/ethers.ts (Polygon USDC balance tracking and history   *)
(* reconciliation of the wallet).                                          *)
(*                                                                         *)
(* The module holds these specifications over one set of variables:        *)
(*   SpecClassify  the per-chunk log classification of the history scan    *)
(*                 and receiptToTransaction, applied to bounded inputs;    *)
(*   SpecSub       the address watcher, subscribe and the balance caches;  *)
(*   SpecRefresh   the balance refreshes, including sendTransaction;       *)
(*   SpecHist      the history-scan runs, the transaction store and the    *)
(*                 fetched markers on a fixed chain;                       *)
(*   SpecRuns      history scans while addresses are removed and added;    *)
(*   SpecScan      one address scanned over one and two chunks;            *)
(*   SpecLoop      the loop of one scan: ranges and reconciliation         *)
(*                 arithmetic, for every answer of the four reads;         *)
(*   SpecListen    the live transfer listener;                             *)
(*   SpecGone      live events after the removal of an address;            *)
(*   SpecStore     the listener and a history scan writing one store;      *)
(*   SpecOverlap   balance refreshes in flight while the chain changes;    *)
(*   SpecRetry     the scans of SpecScan under fair scheduling;            *)
(*   SpecLaunch    launchPolygon and the watchers it installs.             *)
(***************************************************************************)
EXTENDS Integers, Sequences, FiniteSets, Bags, TLC

VARIABLES
    \* ---- inputs and results of the classification functions (SpecClassify)
    cIn,            \* the drawn input: token variant, environment, chain logs, knownHashes
    cOut,           \* what the applied function produced
    \* ---- module state of ethers.ts
    addressInfos,           \* keys of addressStore.state.addressInfos
    activeAddress,          \* address of addressStore.addressInfo (or NoValue)
    subscribedAddresses,    \* line 236
    fetchedAddresses,       \* line 237
    fetchedNativeAddresses, \* line 238
    balances,               \* line 65: Map address -> number (NoValue: no entry)
    nativeBalances,         \* line 69
    filters,                \* installed event filters, per token contract
    currentFilter,          \* currentSubscriptionFilter / currentNativeSubscriptionFilter
    tasks,                  \* pending asynchronous continuations (refreshes, subscribe)
    chainBalance,           \* the balances balanceOf reports in this behaviour
    transactions,           \* usdcTransactions$.transactions: hash -> Transaction
    fetchingTxHistory,      \* network$.fetchingTxHistory
    runs,                   \* the history-scan run of each (address, variant)
    chain,                  \* the Transfer logs on chain, per token contract
    completed,              \* history: the scans that ran to their end, per token
    isLaunched,             \* line 59
    watchers,               \* the callbacks installed by watch(), in the order of the calls
    launches,               \* history: the number of launchPolygon calls so far
    last                    \* the handler that ran in the last step and what it did

vars == <<cIn, cOut, addressInfos, activeAddress, subscribedAddresses,
          fetchedAddresses, fetchedNativeAddresses, balances, nativeBalances,
          filters, currentFilter, tasks, chainBalance, transactions,
          fetchingTxHistory, runs, chain, completed, isLaunched, watchers,
          launches, last>>

classifyVars == <<cIn, cOut>>
launchVars == <<isLaunched, watchers, launches>>
subVars == <<addressInfos, activeAddress, subscribedAddresses, balances,
             nativeBalances, filters, currentFilter, tasks, chainBalance>>
histVars == <<fetchedAddresses, fetchedNativeAddresses, transactions,
              fetchingTxHistory, runs, chain, completed>>

\* JavaScript's undefined where a string is expected (no active address).
NoValue == "undefined"
\* An optional value (a field that may be undefined) is a sequence of length
\* 0 or 1; a Map is a function whose DOMAIN is its key set.
Undefined == <<>>
Some(x) == <<x>>
EmptyMap == <<>>
MapSet(m, k, x) == [y \in DOMAIN m \cup {k} |-> IF y = k THEN x ELSE m[y]]
MapDelete(m, ks) == [y \in DOMAIN m \ ks |-> m[y]]
MapGet(m, k) == IF k \in DOMAIN m THEN Some(m[k]) ELSE Undefined

(***************************************************************************)
(* Configuration (useConfig().config) and the addresses the code names.    *)
(***************************************************************************)
ENV_MAIN == "main"
ENV_TEST == "test"
Environments == {ENV_MAIN, ENV_TEST}

BRIDGED == "bridged"
NATIVE == "native"
Variants == {BRIDGED, NATIVE}

\* lines 324, 357, 654: the watchers of launchPolygon in the order of the
\* watch() calls: the address watcher, then the history watcher of each token
ADDRESS_WATCHER == "address"
WatchersOfLaunch == <<ADDRESS_WATCHER, BRIDGED, NATIVE>>

\* launchPolygon has been called once
Launched ==
    /\ isLaunched = TRUE
    /\ watchers = WatchersOfLaunch
    /\ launches = 1

usdcContract == "usdcContract"
nativeUsdcContract == "nativeUsdcContract"
htlcContract == "htlcContract"
nativeHtlcContract == "nativeHtlcContract"
swapPoolContract == "swapPoolContract"
\* result of getPoolAddress(transferContract, token): the relay fee pool
poolAddress == "poolAddress"
V2_TRANSFER == "0x443EAAd5EeAacCdC3887477c188CF2875B3dcf7c"
V1_TRANSFER == "0x703EC732971cB23183582a6966bA70E164d89ab1"
V1_HTLC == "0x573aA448cC6e28AF0EeC7E93037B5A592a83d936"

TokenOf(v) == IF v = NATIVE THEN nativeUsdcContract ELSE usdcContract
HtlcOf(v) == IF v = NATIVE THEN nativeHtlcContract ELSE htlcContract

TransactionState == [PENDING |-> "pending", MINED |-> "mined", FAILED |-> "failed"]


(***************************************************************************)
(* Transfer logs.  A chain log is a record                                 *)
(*   [transactionHash, logIndex, from, to, value, blockNumber];            *)
(* queryFilter returns Event objects, which carry the decoded args as an   *)
(* array-like Result <<from, to, value>> (a fee is pushed as 4th element). *)
(***************************************************************************)
ArgsFrom(args) == args[1]
ArgsTo(args) == args[2]
ArgsValue(args) == args[3]
\* args.fee = args[3] (0-based) once a fee was pushed, undefined before
ArgsFee(args) == IF Len(args) >= 4 THEN Some(args[4]) ELSE Undefined

\* lines 1414-1425: clone the positional elements, push the fee, and name
\* element 3 (0-based) `fee`: a Result that already carries a fee keeps it.
addFeeToArgsDropsFee(readonlyArgs, fee) == readonlyArgs

addFeeToArgs(readonlyArgs, fee) == Append(readonlyArgs, fee)

ToEvent(l) ==
    [transactionHash |-> l.transactionHash, logIndex |-> l.logIndex,
     args |-> <<l.from, l.to, l.value>>, failed |-> FALSE,
     blockNumber |-> l.blockNumber]

LogBefore(a, b) ==
    \/ a.blockNumber < b.blockNumber
    \/ a.blockNumber = b.blockNumber /\ a.logIndex < b.logIndex

RECURSIVE SortLogs(_)
\* eth_getLogs returns the matching logs in chain order
SortLogs(S) ==
    IF S = {} THEN <<>>
    ELSE LET first == CHOOSE l \in S : \A m \in S \ {l} : LogBefore(l, m)
         IN <<first>> \o SortLogs(S \ {first})

\* client.usdc.queryFilter(filter, startHeight, endHeight); both heights are
\* inclusive.  filterIncoming = Transfer(null, address), filterOutgoing =
\* Transfer(address) (lines 384-385, 442-443).
InRange(l, startHeight, endHeight) ==
    l.blockNumber >= startHeight /\ l.blockNumber <= endHeight

queryIncoming(logs, address, startHeight, endHeight) ==
    SortLogs({l \in logs : l.to = address /\ InRange(l, startHeight, endHeight)})

queryOutgoing(logs, address, startHeight, endHeight) ==
    SortLogs({l \in logs : l.from = address /\ InRange(l, startHeight, endHeight)})

SeqMap(Op(_), s) == [i \in 1..Len(s) |-> Op(s[i])]

RECURSIVE SeqFilter(_, _)
SeqFilter(Test(_), s) ==
    IF s = <<>> THEN <<>>
    ELSE (IF Test(Head(s)) THEN <<Head(s)>> ELSE <<>>) \o SeqFilter(Test, Tail(s))

\* Array.prototype.find as an index: first match, 0 when there is none
FirstIndex(Test(_), s) ==
    LET S == {j \in 1..Len(s) : Test(s[j])}
    IN IF S = {} THEN 0 ELSE CHOOSE j \in S : \A k \in S : j <= k

\* lines 446-448: ignore address poisoning transactions
KeepsZeroValue(ev) == TRUE

IsNonZero(ev) == ArgsValue(ev.args) # 0

(***************************************************************************)
(* Fee recognition of the history scan.                                    *)
(***************************************************************************)
\* lines 484-494 (bridged) and 781 (native)
IsFeeRecipient(v, env, to) ==
    \/ to = poolAddress
    \/ /\ v = BRIDGED
       /\ env # ENV_MAIN
       /\ to \in {V2_TRANSFER, V1_TRANSFER}

\* lines 514-518 (bridged only)
IsLegacyHtlcFee(v, env, to) ==
    v = BRIDGED /\ env # ENV_MAIN /\ to = V1_HTLC

(***************************************************************************)
(* One chunk of the history scan (lines 441-635 bridged, 738-885 native).  *)
(* ctx: [address, variant, environment, knownHashes]; cur: the run's       *)
(* mutable locals [balance, usdcNonce, transferAllowanceUsed,              *)
(* htlcAllowanceUsed, htlcEvents, uniswapEvents].                          *)
(***************************************************************************)
Hashes == {"h1", "h2"}

\* line 481 / 778: knownHashes.includes(log.transactionHash)
IsKnownNever(ctx, ev) == FALSE

IsKnown(ctx, ev) == ev.transactionHash \in ctx.knownHashes

\* lines 496-498 / 783-785: the main transfer log of a fee log
MainTransferIndex(logs, ev) ==
    FirstIndex(LAMBDA other : /\ other.transactionHash = ev.transactionHash
                              /\ other.logIndex # ev.logIndex, logs)

\* lines 522-524: a later transfer of the same transaction
LaterTransferIndex(logs, ev) ==
    FirstIndex(LAMBDA other : /\ other.transactionHash = ev.transactionHash
                              /\ other.logIndex > ev.logIndex, logs)

\* the reconciliation arithmetic with the allowances added to instead of
\* subtracted from
ReconcileLogAddsAllowance(ctx, st, ev) ==
    LET from == ArgsFrom(ev.args)
        to == ArgsTo(ev.args)
        value == ArgsValue(ev.args)
        counted == from = ctx.address /\ st.usdcNonce <= 0
        usesHtlc == ev.transactionHash \in st.txsUsingHtlcAllowance
        afterOut == IF counted THEN st.balance + value ELSE st.balance
    IN [st EXCEPT
          !.balance = IF to = ctx.address THEN afterOut - value ELSE afterOut,
          !.htlcAllowanceUsed = IF counted /\ usesHtlc THEN @ + value ELSE @,
          !.transferAllowanceUsed = IF counted /\ ~usesHtlc THEN @ + value ELSE @,
          !.arith = Append(@, [transactionHash |-> ev.transactionHash,
                               logIndex |-> ev.logIndex,
                               added |-> IF counted THEN value ELSE 0,
                               subtracted |-> IF to = ctx.address
                                              THEN value ELSE 0,
                               htlc |-> IF counted /\ usesHtlc
                                        THEN value ELSE 0,
                               transfer |-> IF counted /\ ~usesHtlc
                                            THEN value ELSE 0])]

\* lines 468-479 / 765-776: the reconciliation arithmetic of one log.
\* st.arith notes, per element of allTransferLogs, what line 469 added to
\* the balance, what line 478 subtracted from it and what lines 472 and 474
\* subtracted from the two allowances.
ReconcileLog(ctx, st, ev) ==
    LET from == ArgsFrom(ev.args)
        to == ArgsTo(ev.args)
        value == ArgsValue(ev.args)
        counted == from = ctx.address /\ st.usdcNonce <= 0
        usesHtlc == ev.transactionHash \in st.txsUsingHtlcAllowance
        afterOut == IF counted THEN st.balance + value ELSE st.balance
    IN [st EXCEPT
          !.balance = IF to = ctx.address THEN afterOut - value ELSE afterOut,
          !.htlcAllowanceUsed = IF counted /\ usesHtlc THEN @ - value ELSE @,
          !.transferAllowanceUsed = IF counted /\ ~usesHtlc THEN @ - value ELSE @,
          !.arith = Append(@, [transactionHash |-> ev.transactionHash,
                               logIndex |-> ev.logIndex,
                               added |-> IF counted THEN value ELSE 0,
                               subtracted |-> IF to = ctx.address
                                              THEN value ELSE 0,
                               htlc |-> IF counted /\ usesHtlc
                                        THEN value ELSE 0,
                               transfer |-> IF counted /\ ~usesHtlc
                                            THEN value ELSE 0])]

\* lines 535-614 / 801-859: receipt lookups registered for the log's hash
RegisterEvents(ctx, st, ev) ==
    LET from == ArgsFrom(ev.args)
        to == ArgsTo(ev.args)
        h == ev.transactionHash
        htlc == HtlcOf(ctx.variant)
        ev1 == IF to = htlc
               THEN MapSet(st.htlcEvents, h, [kind |-> "Open"])
               ELSE st.htlcEvents
        ev2 == IF from = htlc
               THEN MapSet(ev1, h, [kind |-> "RedeemRefund"])
               ELSE ev1
        uni == IF ctx.variant = BRIDGED /\ to = swapPoolContract
               THEN MapSet(st.uniswapEvents, h,
                           [kind |-> "Swap", amountIn |-> ArgsValue(ev.args)])
               ELSE st.uniswapEvents
    IN [st EXCEPT !.htlcEvents = ev2, !.uniswapEvents = uni]

\* the callback with the known-hash test moved in front of the arithmetic
FilterLogKnownFirst(ctx, st0, i) ==
    LET ev == st0.logs[i]
        st == ReconcileLog(ctx, st0, ev)
        to == ArgsTo(ev.args)
        from == ArgsFrom(ev.args)
        value == ArgsValue(ev.args)
    IN IF IsKnown(ctx, ev) THEN st0
       ELSE IF IsFeeRecipient(ctx.variant, ctx.environment, to)
       THEN LET m == MainTransferIndex(st.logs, ev)
            IN IF m # 0
               THEN [st EXCEPT !.logs[m].args = addFeeToArgs(@, value)]
               ELSE [st EXCEPT !.logs[i].failed = TRUE, !.keep = @ \cup {i}]
       ELSE IF IsLegacyHtlcFee(ctx.variant, ctx.environment, to)
       THEN LET m == LaterTransferIndex(st.logs, ev)
            IN IF m # 0
               THEN [st EXCEPT !.logs[m].args = addFeeToArgs(@, value)]
               ELSE st
       ELSE LET st2 == RegisterEvents(ctx, st, ev)
            IN IF ctx.variant = NATIVE /\ from = swapPoolContract
               THEN st2
               ELSE [st2 EXCEPT !.keep = @ \cup {i}]

\* the callback of allTransferLogs.filter for the log at index i
\* (lines 464-617 / 761-868); st.keep collects the indices it returns true for
FilterLog(ctx, st0, i) ==
    LET ev == st0.logs[i]
        st == ReconcileLog(ctx, st0, ev)
        to == ArgsTo(ev.args)
        from == ArgsFrom(ev.args)
        value == ArgsValue(ev.args)
    IN IF IsKnown(ctx, ev) THEN st
       ELSE IF IsFeeRecipient(ctx.variant, ctx.environment, to)
       THEN LET m == MainTransferIndex(st.logs, ev)
            IN IF m # 0
               THEN [st EXCEPT !.logs[m].args = addFeeToArgs(@, value)]
               ELSE [st EXCEPT !.logs[i].failed = TRUE, !.keep = @ \cup {i}]
       ELSE IF IsLegacyHtlcFee(ctx.variant, ctx.environment, to)
       THEN LET m == LaterTransferIndex(st.logs, ev)
            IN IF m # 0
               THEN [st EXCEPT !.logs[m].args = addFeeToArgs(@, value)]
               ELSE st
       ELSE LET st2 == RegisterEvents(ctx, st, ev)
            IN IF ctx.variant = NATIVE /\ from = swapPoolContract
               THEN st2
               ELSE [st2 EXCEPT !.keep = @ \cup {i}]

RECURSIVE PickKept(_, _, _)
\* the elements filter returned true for, in array order
PickKept(logs, keep, i) ==
    IF i > Len(logs) THEN <<>>
    ELSE (IF i \in keep THEN <<logs[i]>> ELSE <<>>) \o PickKept(logs, keep, i + 1)

RECURSIVE FilterLoop(_, _, _)
FilterLoop(ctx, st, i) ==
    IF i > Len(st.logs) THEN st
    ELSE FilterLoop(ctx, FilterLog(ctx, st, i), i + 1)

\* one entry per outgoing log instead of one per transaction
OutgoingTxsPerLog(logsOut) == 1..Len(logsOut)

\* line 453 / 750: new Set(logsOut.map((ev) => ev.transactionHash))
OutgoingTxs(logsOut) == {logsOut[j].transactionHash : j \in 1..Len(logsOut)}

\* every outgoing transaction taken for an HTLC funding
TxsUsingHtlcAllowanceAll(v, logsOut) ==
    {logsOut[j].transactionHash : j \in 1..Len(logsOut)}

\* lines 457-459 / 754-756: the transactions with an outgoing log to the
\* HTLC contract
TxsUsingHtlcAllowance(v, logsOut) ==
    {logsOut[j].transactionHash :
        j \in {k \in 1..Len(logsOut) : ArgsTo(logsOut[k].args) = HtlcOf(v)}}

\* lines 446-617: from the two query results to newLogs and the updated locals
ScanChunk(ctx, cur, rawIn, rawOut) ==
    LET logsIn == SeqFilter(IsNonZero, SeqMap(ToEvent, rawIn))
        logsOut == SeqFilter(IsNonZero, SeqMap(ToEvent, rawOut))
        outgoingTxs == OutgoingTxs(logsOut)
        txsUsingHtlcAllowance == TxsUsingHtlcAllowance(ctx.variant, logsOut)
        allTransferLogs == logsIn \o logsOut
        st0 == [logs |-> allTransferLogs,
                keep |-> {},
                balance |-> cur.balance,
                usdcNonce |-> cur.usdcNonce - Cardinality(outgoingTxs),
                transferAllowanceUsed |-> cur.transferAllowanceUsed,
                htlcAllowanceUsed |-> cur.htlcAllowanceUsed,
                txsUsingHtlcAllowance |-> txsUsingHtlcAllowance,
                htlcEvents |-> cur.htlcEvents,
                uniswapEvents |-> cur.uniswapEvents,
                arith |-> <<>>]
        st == FilterLoop(ctx, st0, 1)
    IN [newLogs |-> PickKept(st.logs, st.keep, 1),
        arith |-> st.arith,
        cur |-> [balance |-> st.balance,
                 usdcNonce |-> st.usdcNonce,
                 transferAllowanceUsed |-> st.transferAllowanceUsed,
                 htlcAllowanceUsed |-> st.htlcAllowanceUsed,
                 htlcEvents |-> st.htlcEvents,
                 uniswapEvents |-> st.uniswapEvents]]

(***************************************************************************)
(* Receipts.  A receipt lists every log of its transaction in log order:   *)
(* inner logs [address, name, args, transactionHash, logIndex,             *)
(* blockNumber].  Besides the token's Transfer logs, the escrow contract   *)
(* logs Open for a funding transfer and Redeem for a payout, and a swap    *)
(* of bridged USDC into the swap pool pays native USDC out of the pool.    *)
(***************************************************************************)
InnerLog(address, name, args, l) ==
    [address |-> address, name |-> name, args |-> args,
     transactionHash |-> l.transactionHash, logIndex |-> l.logIndex,
     blockNumber |-> l.blockNumber, failed |-> FALSE]

ContractLogsOf(v, l) ==
    (IF l.to = HtlcOf(v) /\ l.value # 0
     THEN <<InnerLog(HtlcOf(v), "Open", <<>>, l)>> ELSE <<>>)
    \o (IF l.from = HtlcOf(v) /\ l.value # 0
        THEN <<InnerLog(HtlcOf(v), "Redeem", <<>>, l)>> ELSE <<>>)
    \o (IF v = BRIDGED /\ l.to = swapPoolContract /\ l.value # 0
        THEN <<InnerLog(nativeUsdcContract, "Transfer",
                        <<swapPoolContract, l.from, l.value>>, l)>>
        ELSE <<>>)

RECURSIVE ReceiptLogsOf(_, _)
ReceiptLogsOf(v, sorted) ==
    IF sorted = <<>> THEN <<>>
    ELSE LET l == Head(sorted)
         IN <<InnerLog(TokenOf(v), "Transfer", <<l.from, l.to, l.value>>, l)>>
            \o ContractLogsOf(v, l) \o ReceiptLogsOf(v, Tail(sorted))

\* log.getTransactionReceipt() / the receipt handed to receiptToTransaction
getTransactionReceipt(logs, v, h) ==
    ReceiptLogsOf(v, SortLogs({l \in logs : l.transactionHash = h}))

\* lines 540-557, 568-587: the first matching escrow event of the receipt
ResolveHtlcEvent(v, lookup, receipt) ==
    LET names == IF lookup.kind = "Open" THEN {"Open"} ELSE {"Redeem", "Refund"}
        m == FirstIndex(LAMBDA il : il.address = HtlcOf(v) /\ il.name \in names,
                        receipt)
    IN IF m = 0 THEN Undefined ELSE Some([name |-> receipt[m].name])

\* lines 596-610: the first native Transfer of the receipt
ResolveUniswapEvent(lookup, receipt) ==
    LET m == FirstIndex(LAMBDA il : /\ il.address = nativeUsdcContract
                                    /\ il.name = "Transfer", receipt)
    IN IF m = 0 THEN Undefined
       ELSE Some([name |-> "Swap", amountIn |-> lookup.amountIn,
                  amountOut |-> ArgsValue(receipt[m].args)])

\* lines 622-623 / 873: htlcEvents.get(hash) || uniswapEvents.get(hash); a
\* registered promise is truthy whatever it resolves to
EventOfLog(ctx, cur, logs, ev) ==
    LET h == ev.transactionHash
        receipt == getTransactionReceipt(logs, ctx.variant, h)
    IN IF h \in DOMAIN cur.htlcEvents
       THEN ResolveHtlcEvent(ctx.variant, cur.htlcEvents[h], receipt)
       ELSE IF h \in DOMAIN cur.uniswapEvents
       THEN ResolveUniswapEvent(cur.uniswapEvents[h], receipt)
       ELSE Undefined

\* lines 904-924 (timestamp follows blockHeight and is left out)
logAndBlockToPlainNeverFailed(token, log, block, event) ==
    [token |-> token,
     transactionHash |-> log.transactionHash,
     logIndex |-> log.logIndex,
     sender |-> ArgsFrom(log.args),
     recipient |-> ArgsTo(log.args),
     value |-> ArgsValue(log.args),
     fee |-> ArgsFee(log.args),
     event |-> event,
     state |-> IF block # Undefined THEN TransactionState.MINED
               ELSE TransactionState.PENDING,
     blockHeight |-> block]

logAndBlockToPlain(token, log, block, event) ==
    [token |-> token,
     transactionHash |-> log.transactionHash,
     logIndex |-> log.logIndex,
     sender |-> ArgsFrom(log.args),
     recipient |-> ArgsTo(log.args),
     value |-> ArgsValue(log.args),
     fee |-> ArgsFee(log.args),
     event |-> event,
     state |-> IF log.failed THEN TransactionState.FAILED
               ELSE IF block # Undefined THEN TransactionState.MINED
               ELSE TransactionState.PENDING,
     blockHeight |-> block]

\* lines 619-633 / 870-883: the Transactions of a chunk, in newLogs order
ChunkTransactions(ctx, cur, logs, newLogs) ==
    [k \in 1..Len(newLogs) |->
        logAndBlockToPlain(TokenOf(ctx.variant), newLogs[k],
                           Some(newLogs[k].blockNumber),
                           EventOfLog(ctx, cur, logs, newLogs[k]))]

RECURSIVE addTransactions(_, _)
\* the transactions store, keyed by transactionHash: a later record of a hash
\* replaces the earlier one
addTransactions(store, txs) ==
    IF txs = <<>> THEN store
    ELSE addTransactions(MapSet(store, Head(txs).transactionHash, Head(txs)),
                         Tail(txs))

(***************************************************************************)
(* receiptToTransaction (lines 1204-1362).  v is the variant of `token`;   *)
(* filterByFromAddress and block are optional.  The result is Undefined    *)
(* when the function throws 'Could not find transfer log'.                 *)
(***************************************************************************)
\* lines 1226-1254: logs of other contracts map to null and are skipped
ParsedLogs(v, receipt) ==
    SeqFilter(LAMBDA il : il.address \in {TokenOf(v), HtlcOf(v)}, receipt)

\* lines 1268-1289
ReceiptIsFeePoolOnly(env, to, feeLog, nTransfers) == to = poolAddress

ReceiptIsFee(env, to, feeLog, nTransfers) ==
    \/ to = poolAddress
    \/ env # ENV_MAIN /\ to \in {V2_TRANSFER, V1_TRANSFER}
    \/ env # ENV_MAIN /\ to = V1_HTLC /\ feeLog = Undefined /\ nTransfers > 1

\* lines 1295-1309: the last native Transfer out of the swap pool
ReceiptUniswapEvent(receipt, log, previous) ==
    LET S == {j \in 1..Len(receipt) :
                 /\ receipt[j].address = nativeUsdcContract
                 /\ receipt[j].name = "Transfer"
                 /\ ArgsFrom(receipt[j].args) = swapPoolContract}
    IN IF S = {} THEN previous
       ELSE LET m == CHOOSE j \in S : \A k \in S : k <= j
            IN Some([name |-> "Swap", amountIn |-> ArgsValue(log.args),
                     amountOut |-> ArgsValue(receipt[m].args)])

\* lines 1261-1341: the body of logs.forEach
ReceiptLog(v, env, receipt, filterByFromAddress, nTransfers, rs, log) ==
    IF log.name = "Transfer"
    THEN IF /\ filterByFromAddress # Undefined
            /\ ArgsFrom(log.args) # filterByFromAddress[1]
         THEN rs
         ELSE IF ReceiptIsFee(env, ArgsTo(log.args), rs.feeLog, nTransfers)
         THEN [rs EXCEPT !.feeLog = Some(log)]
         ELSE [rs EXCEPT
                 !.transferLog = Some(log),
                 !.uniswapEvent =
                     IF v = BRIDGED /\ ArgsTo(log.args) = swapPoolContract
                     THEN ReceiptUniswapEvent(receipt, log, @) ELSE @]
    ELSE IF log.name \in {"Open", "Redeem", "Refund"}
    THEN [rs EXCEPT !.htlcEvent = Some([name |-> log.name])]
    ELSE rs

RECURSIVE ReceiptLoop(_, _, _, _, _, _, _)
ReceiptLoop(v, env, receipt, filterByFromAddress, logs, rs, i) ==
    IF i > Len(logs) THEN rs
    ELSE ReceiptLoop(v, env, receipt, filterByFromAddress, logs,
             ReceiptLog(v, env, receipt, filterByFromAddress,
                 Cardinality({j \in 1..Len(logs) : logs[j].name = "Transfer"}),
                 rs, logs[i]),
             i + 1)

receiptToTransaction(v, env, receipt, filterByFromAddress, block) ==
    LET logs == ParsedLogs(v, receipt)
        rs == ReceiptLoop(v, env, receipt, filterByFromAddress, logs,
                  [transferLog |-> Undefined, feeLog |-> Undefined,
                   htlcEvent |-> Undefined, uniswapEvent |-> Undefined], 1)
        \* lines 1343-1351
        failedFee == rs.transferLog = Undefined /\ rs.feeLog # Undefined
        transferLog == IF failedFee
                       THEN [rs.feeLog[1] EXCEPT !.failed = TRUE]
                       ELSE rs.transferLog[1]
        feeLog == IF failedFee THEN Undefined ELSE rs.feeLog
        \* lines 1353-1355
        withFee == IF feeLog # Undefined
                   THEN [transferLog EXCEPT
                            !.args = addFeeToArgs(@, ArgsValue(feeLog[1].args))]
                   ELSE transferLog
    IN IF rs.transferLog = Undefined /\ rs.feeLog = Undefined
       THEN Undefined
       ELSE Some(logAndBlockToPlain(TokenOf(v), withFee,
                    IF block # Undefined THEN block
                    ELSE Some(transferLog.blockNumber),
                    IF rs.htlcEvent # Undefined THEN rs.htlcEvent
                    ELSE rs.uniswapEvent))

(***************************************************************************)
(* SpecClassify: the chunk classification and receiptToTransaction applied *)
(* to every input of a bounded set.  The scanned address is X; the logs    *)
(* are those of one block of the variant's token contract.                 *)
(***************************************************************************)
X == "X"
Y == "Y"

\* sender/recipient pairs of the drawn logs: sent by X, received by X, and a
\* fee paid by somebody else
LogShapes(v) ==
    {<<X, to>> : to \in {X, Y, poolAddress, V2_TRANSFER, V1_TRANSFER, V1_HTLC,
                         HtlcOf(v), swapPoolContract}}
    \cup {<<from, X>> : from \in {Y, HtlcOf(v), swapPoolContract}}
    \cup {<<Y, poolAddress>>}

SmallShapes == {<<X, Y>>, <<Y, X>>, <<X, poolAddress>>, <<X, X>>}

\* the log positions of the drawn block: two logs of h1, one of h2
Slots ==
    <<[transactionHash |-> "h1", logIndex |-> 0],
      [transactionHash |-> "h1", logIndex |-> 1],
      [transactionHash |-> "h2", logIndex |-> 2]>>

ChunkBlock == 1

\* slot i holds no log, or a log of value zero or of value i
SlotChoices(v, i) ==
    {{}} \cup
    {{[transactionHash |-> Slots[i].transactionHash,
       logIndex |-> Slots[i].logIndex,
       from |-> sh[1], to |-> sh[2], value |-> val,
       blockNumber |-> ChunkBlock]} :
        sh \in (IF Slots[i].transactionHash = "h1" THEN LogShapes(v)
                ELSE SmallShapes),
        val \in {0, i}}

KnownChoices == {{}, {"h1"}}

ZeroCursor ==
    [balance |-> 0, usdcNonce |-> 0, transferAllowanceUsed |-> 0,
     htlcAllowanceUsed |-> 0, htlcEvents |-> EmptyMap,
     uniswapEvents |-> EmptyMap]

NoOutput ==
    [op |-> "none", transactions |-> <<>>, store |-> EmptyMap,
     filter |-> Undefined, result |-> Undefined]

\* the module state right after the script was loaded
\* no Transfer log on either token contract
NoLogs == [v \in Variants |-> {}]

\* no scan has run to its end yet
NoneCompleted ==
    [v \in Variants |-> [count |-> 0, first |-> Undefined, alone |-> TRUE,
                         done |-> {}]]

\* lines 65-69, 236-241: the module state when ethers.ts has been loaded
ModuleLoaded ==
    /\ subscribedAddresses = {}
    /\ fetchedAddresses = {} /\ fetchedNativeAddresses = {}
    /\ balances = EmptyMap /\ nativeBalances = EmptyMap
    /\ filters = [v \in Variants |-> EmptyBag]
    /\ currentFilter = [v \in Variants |-> Undefined]
    /\ tasks = EmptyBag

IdleState ==
    /\ ModuleLoaded
    /\ addressInfos = {} /\ activeAddress = NoValue
    /\ chainBalance = {}
    /\ transactions = EmptyMap /\ fetchingTxHistory = 0
    /\ runs = EmptyBag /\ chain = NoLogs /\ completed = NoneCompleted
    /\ last = [op |-> "init"]
    /\ Launched

InitClassify ==
    /\ \E v \in Variants, env \in Environments, known \in KnownChoices :
         \E a \in SlotChoices(v, 1), b \in SlotChoices(v, 2),
            c \in SlotChoices(v, 3) :
            cIn = [variant |-> v, environment |-> env, address |-> X,
                   knownHashes |-> known, logs |-> a \cup b \cup c]
    /\ cOut = NoOutput
    /\ IdleState

CtxOf(in) ==
    [address |-> in.address, variant |-> in.variant,
     environment |-> in.environment, knownHashes |-> in.knownHashes]

\* one chunk over the drawn block: both queries, the filter, the Transactions
\* handed to addTransactions
ClassifyChunk ==
    /\ cOut.op = "none"
    /\ LET ctx == CtxOf(cIn)
           res == ScanChunk(ctx, ZeroCursor,
                      queryIncoming(cIn.logs, cIn.address, 0, ChunkBlock),
                      queryOutgoing(cIn.logs, cIn.address, 0, ChunkBlock))
           txs == ChunkTransactions(ctx, res.cur, cIn.logs, res.newLogs)
       IN cOut' = [NoOutput EXCEPT !.op = "chunk", !.transactions = txs,
                                   !.store = addTransactions(EmptyMap, txs)]
    /\ UNCHANGED <<launchVars, cIn, subVars, histVars, last>>

\* receiptToTransaction on the receipt of h1
ClassifyReceipt ==
    /\ cOut.op = "none"
    /\ \E filterByFromAddress \in {Undefined, Some(X)} :
          cOut' = [NoOutput EXCEPT
                     !.op = "receipt",
                     !.filter = filterByFromAddress,
                     !.result = receiptToTransaction(cIn.variant,
                         cIn.environment,
                         getTransactionReceipt(cIn.logs, cIn.variant, "h1"),
                         filterByFromAddress, Undefined)]
    /\ UNCHANGED <<launchVars, cIn, subVars, histVars, last>>

NextClassify == ClassifyChunk \/ ClassifyReceipt

SpecClassify == InitClassify /\ [][NextClassify]_vars

(***************************************************************************)
(* Claims about the classification (checked under SpecClassify).           *)
(***************************************************************************)
\* the log entries the two queries of the chunk returned, in filter order
ChunkEntries ==
    queryIncoming(cIn.logs, cIn.address, 0, ChunkBlock)
    \o queryOutgoing(cIn.logs, cIn.address, 0, ChunkBlock)

EntriesOf(h) ==
    {i \in 1..Len(ChunkEntries) : ChunkEntries[i].transactionHash = h}

\* the Transactions of hash h among those handed to addTransactions
EmittedFor(h) ==
    {k \in 1..Len(cOut.transactions) :
        cOut.transactions[k].transactionHash = h}

\* a fee log of the scan: paid to the relay pool or, in a bridged scan outside
\* the main environment, to a legacy transfer contract
IsScanFeeLog(l) == IsFeeRecipient(cIn.variant, cIn.environment, l.to)

\* a log that no fee rule of the scan applies to
IsScanPlainLog(l) ==
    /\ ~IsFeeRecipient(cIn.variant, cIn.environment, l.to)
    /\ ~IsLegacyHtlcFee(cIn.variant, cIn.environment, l.to)

\* the entries of h are exactly one nonzero plain log (at p) and one nonzero
\* fee log (at f)
FeePair(h, p, f) ==
    /\ h \notin cIn.knownHashes
    /\ EntriesOf(h) = {p, f} /\ p # f
    /\ ChunkEntries[p].value # 0 /\ ChunkEntries[f].value # 0
    /\ IsScanPlainLog(ChunkEntries[p])
    /\ IsScanFeeLog(ChunkEntries[f])

\* exactly one Transaction for h: the plain log with the fee log's value as fee
OnePrimaryWithFee(h, p, f) ==
    /\ Cardinality(EmittedFor(h)) = 1
    /\ \A k \in EmittedFor(h) :
         LET tx == cOut.transactions[k]
         IN /\ tx.sender = ChunkEntries[p].from
            /\ tx.recipient = ChunkEntries[p].to
            /\ tx.value = ChunkEntries[p].value
            /\ tx.fee = Some(ChunkEntries[f].value)
            /\ ~IsScanFeeLog([to |-> tx.recipient])
            /\ h \in DOMAIN cOut.store /\ cOut.store[h] = tx

ReceiptTransfers == SortLogs({l \in cIn.logs : l.transactionHash = "h1"})

\* the addresses receiptToTransaction may take for a fee collector
ReceiptFeeAddresses ==
    {poolAddress} \cup
    (IF cIn.environment # ENV_MAIN
     THEN {V2_TRANSFER, V1_TRANSFER, V1_HTLC} ELSE {})

\* the receipt holds one primary log (at p) and one fee log (at f) of sender X
ReceiptPair(p, f) ==
    /\ Len(ReceiptTransfers) = 2 /\ {p, f} = {1, 2}
    /\ ReceiptTransfers[p].from = X /\ ReceiptTransfers[f].from = X
    /\ ReceiptTransfers[p].to \notin ReceiptFeeAddresses
    /\ ReceiptTransfers[f].to \in ReceiptFeeAddresses

\* C2: receiptToTransaction on a receipt of one primary log {X, Y, v} and one
\* fee log {X, FEE_ADDR, f}, in either order, returns one Transaction
\* {sender X, recipient Y, value v, fee f} that is not Failed.
C2_ReceiptFeeAttached ==
    cOut.op = "receipt" =>
        \A p, f \in 1..2 :
            ReceiptPair(p, f) =>
                /\ cOut.result # Undefined
                /\ LET tx == cOut.result[1]
                   IN /\ tx.sender = X
                      /\ tx.recipient = ReceiptTransfers[p].to
                      /\ tx.value = ReceiptTransfers[p].value
                      /\ tx.fee = Some(ReceiptTransfers[f].value)
                      /\ tx.state # TransactionState.FAILED
                      /\ tx.transactionHash = "h1"

\* the primary log precedes the fee log in the receipt
C2_Witness ==
    /\ cOut.op = "receipt"
    /\ ReceiptPair(1, 2)
    /\ cOut.result # Undefined
    /\ cOut.result[1].fee = Some(2)
    /\ cOut.result[1].value = 1

\* the only Transfer log of hash h is a fee log sent by X
FeeOnly(h) ==
    \E l \in cIn.logs :
        /\ {m \in cIn.logs : m.transactionHash = h} = {l}
        /\ l.from = X
        /\ IsScanFeeLog(l)

TheLogOf(h) == CHOOSE l \in cIn.logs : l.transactionHash = h

\* tx is the Failed Transaction of the fee log l
IsFailedFee(tx, l) ==
    /\ tx.transactionHash = l.transactionHash
    /\ tx.state = TransactionState.FAILED
    /\ tx.value = l.value
    /\ tx.recipient = l.to
    /\ tx.sender = l.from
    /\ tx.fee = Undefined
    /\ tx.blockHeight = Some(l.blockNumber)

ScanYieldsFailed(h) ==
    /\ Cardinality(EmittedFor(h)) = 1
    /\ \A k \in EmittedFor(h) : IsFailedFee(cOut.transactions[k], TheLogOf(h))

ReceiptYieldsFailed(h) ==
    /\ cOut.result # Undefined
    /\ IsFailedFee(cOut.result[1], TheLogOf(h))

\* C3 as stated: a fee log that is the only transfer log of its transaction
\* yields, in the scan and in receiptToTransaction, exactly one Transaction:
\* Failed, value f, recipient FEE_ADDR, no fee, also with the block at hand.
C3_AsStated ==
    /\ cOut.op = "chunk" =>
          \A h \in Hashes : FeeOnly(h) => ScanYieldsFailed(h)
    /\ cOut.op = "receipt" => (FeeOnly("h1") => ReceiptYieldsFailed("h1"))

\* C3 (amended): receiptToTransaction always does; the scan does when f is
\* nonzero and the hash is not in knownHashes, and otherwise yields no
\* Transaction for that hash.
C3_FeeOnlyIsFailed ==
    /\ cOut.op = "chunk" =>
          \A h \in Hashes : FeeOnly(h) =>
              IF TheLogOf(h).value # 0 /\ h \notin cIn.knownHashes
              THEN ScanYieldsFailed(h)
              ELSE EmittedFor(h) = {}
    /\ cOut.op = "receipt" => (FeeOnly("h1") => ReceiptYieldsFailed("h1"))

\* the scan emitted the Failed Transaction of a lone fee log of h1 beside a
\* Transaction of h2
C3_Witness ==
    /\ cOut.op = "chunk"
    /\ FeeOnly("h1") /\ ScanYieldsFailed("h1")
    /\ EmittedFor("h2") # {}

\* C4: no Transaction is persisted for a zero-value log of the chunk, whatever
\* its sender, recipient or hash.
C4_ZeroValueNeverPersisted ==
    cOut.op = "chunk" =>
        \A i \in 1..Len(ChunkEntries) :
            ChunkEntries[i].value = 0 =>
                /\ \A k \in 1..Len(cOut.transactions) :
                      ~(/\ cOut.transactions[k].transactionHash
                              = ChunkEntries[i].transactionHash
                        /\ cOut.transactions[k].logIndex
                              = ChunkEntries[i].logIndex)
                /\ \A h \in DOMAIN cOut.store :
                      ~(/\ h = ChunkEntries[i].transactionHash
                        /\ cOut.store[h].logIndex = ChunkEntries[i].logIndex)

\* a zero-value log shares its hash with a log that was persisted
C4_Witness ==
    /\ cOut.op = "chunk"
    /\ \E i \in 1..Len(ChunkEntries) :
          /\ ChunkEntries[i].value = 0
          /\ ChunkEntries[i].transactionHash \in DOMAIN cOut.store

(***************************************************************************)
(* Balance caches, subscription and the address watcher                    *)
(* (lines 161-262 and 324-353).                                            *)
(***************************************************************************)
UserAddresses == {X, Y}
\* the order in which Object.keys and the Sets enumerate the addresses
AddressOrder == <<X, Y>>
\* the balances balanceOf may report
BalanceValues == {0, 1}
MaxTasks == 3

Keys(S) == SeqFilter(LAMBDA a : a \in S, AddressOrder)

\* the pending continuation of subscribe's getPolygonClient().then (line 243)
SubscribeTask == [type |-> "subscribe", variant |-> NoValue, addresses |-> <<>>]

\* a call of updateBalances / updateNativeBalances waiting in Promise.all
\* (lines 175 / 202)
RefreshTask(v, addresses) ==
    [type |-> "refresh", variant |-> v, addresses |-> addresses]

\* lines 173-175 / 200-202: the synchronous part of a refresh call
StartRefresh(w, v, addresses) ==
    IF addresses = <<>> THEN w
    ELSE [w EXCEPT
            !.tasks = @ (+) SetToBag({RefreshTask(v, addresses)}),
            !.trace = Append(@, [ev |-> IF v = BRIDGED THEN "updateBalances"
                                        ELSE "updateNativeBalances",
                                 addresses |-> {addresses[i] :
                                                i \in 1..Len(addresses)},
                                 had |-> TRUE])]

RECURSIVE NewBalances(_, _, _)
\* lines 176-178: new Map(accounts.map((balance, i) => [addresses[i], balance]))
NewBalances(addresses, accounts, i) ==
    IF i = 0 THEN EmptyMap
    ELSE MapSet(NewBalances(addresses, accounts, i - 1),
                addresses[i], accounts[i])

\* the comparison of line 180 / 207 without the case of a missing entry
BalanceChangedIfCached(cache, address, newBalance) ==
    address \in DOMAIN cache /\ cache[address] # newBalance

\* line 180 / 207: !(balances.get(address) === newBalance)
BalanceChanged(cache, address, newBalance) ==
    MapGet(cache, address) # Some(newBalance)

\* lines 179-197 / 206-226: keep the changed balances, set the cache, patch
CompareAndPatch(cache, newBalances) ==
    LET changed == {a \in DOMAIN newBalances :
                        BalanceChanged(cache, a, newBalances[a])}
    IN [cache |-> [a \in DOMAIN cache \cup changed |->
                      IF a \in changed THEN newBalances[a] ELSE cache[a]],
        patches |-> [a \in changed |-> newBalances[a]]]

RECURSIVE forgetBalances(_, _)
\* lines 229-234
forgetBalances(w, addresses) ==
    IF addresses = <<>> THEN w
    ELSE forgetBalances(
             [w EXCEPT !.balances = MapDelete(@, {Head(addresses)}),
                       !.nativeBalances = MapDelete(@, {Head(addresses)}),
                       !.trace = Append(@,
                           [ev |-> "forgetBalances",
                            addresses |-> {Head(addresses)},
                            had |-> Head(addresses) \in
                                      DOMAIN w.balances \cup
                                      DOMAIN w.nativeBalances])],
             Tail(addresses))

\* lines 242-262
subscribe(w, addresses) ==
    LET w1 == [w EXCEPT
                 !.tasks = @ (+) SetToBag({SubscribeTask}),
                 !.trace = Append(@, [ev |-> "subscribe",
                                      addresses |-> {addresses[i] :
                                                     i \in 1..Len(addresses)},
                                      had |-> TRUE])]
    IN StartRefresh(StartRefresh(w1, BRIDGED, addresses), NATIVE, addresses)

\* the loop body of lines 329-337 that leaves a still-present address in
\* removedAddresses
WatcherStepKeepsRemoved(w, address) ==
    IF address \in w.subscribed THEN w
    ELSE [w EXCEPT !.subscribed = @ \cup {address},
                   !.newAddresses = Append(@, address)]

\* lines 329-337: one key of addressStore.state.addressInfos
WatcherStep(w, address) ==
    IF address \in w.subscribed
    THEN [w EXCEPT !.removedAddresses = @ \ {address}]
    ELSE [w EXCEPT !.subscribed = @ \cup {address},
                   !.newAddresses = Append(@, address)]

RECURSIVE WatcherLoop(_, _)
WatcherLoop(w, keys) ==
    IF keys = <<>> THEN w
    ELSE WatcherLoop(WatcherStep(w, Head(keys)), Tail(keys))

RECURSIVE RemoveLoop(_, _)
\* lines 340-344
RemoveLoop(w, removed) ==
    IF removed = <<>> THEN w
    ELSE RemoveLoop(
             [w EXCEPT !.subscribed = @ \ {Head(removed)},
                       !.fetched = @ \ {Head(removed)},
                       !.fetchedNative = @ \ {Head(removed)},
                       !.trace = Append(@,
                           [ev |-> "delete", addresses |-> {Head(removed)},
                            had |-> Head(removed) \in
                                      w.fetched \cup w.fetchedNative])],
             Tail(removed))

\* lines 339-348
RemoveAddresses(w) ==
    IF w.removedAddresses # {}
    THEN forgetBalances(RemoveLoop(w, Keys(w.removedAddresses)),
                        Keys(w.removedAddresses))
    ELSE w

\* lines 350-353 without the early return
subscribeAlways(w) == subscribe(w, w.newAddresses)

\* lines 350-353
subscribeIfNew(w) ==
    IF w.newAddresses = <<>> THEN w ELSE subscribe(w, w.newAddresses)

\* the callback with the subscription of the new addresses moved before the
\* removal
WatcherBodySubscribesFirst(w0, keys) ==
    RemoveAddresses(subscribeIfNew(WatcherLoop(w0, keys)))

\* lines 325-353: the callback of watch(addressStore.addressInfo, ...)
WatcherBody(w0, keys) ==
    subscribeIfNew(RemoveAddresses(WatcherLoop(w0, keys)))

\* the module state the callback works on, with its two locals
WatcherState ==
    [subscribed |-> subscribedAddresses,
     fetched |-> fetchedAddresses, fetchedNative |-> fetchedNativeAddresses,
     balances |-> balances, nativeBalances |-> nativeBalances,
     tasks |-> tasks, trace |-> <<>>,
     newAddresses |-> <<>>, removedAddresses |-> subscribedAddresses]

AddressWatcher ==
    LET w == WatcherBody(WatcherState, Keys(addressInfos))
    IN /\ BagCardinality(w.tasks) <= MaxTasks
       /\ subscribedAddresses' = w.subscribed
       /\ fetchedAddresses' = w.fetched
       /\ fetchedNativeAddresses' = w.fetchedNative
       /\ balances' = w.balances
       /\ nativeBalances' = w.nativeBalances
       /\ tasks' = w.tasks
       /\ last' = [op |-> "addressWatcher", trace |-> w.trace,
                   newAddresses |-> w.newAddresses,
                   removedAddresses |-> w.removedAddresses]
       /\ completed' = [v \in Variants |->
                          [completed[v] EXCEPT
                              !.done = @ \ w.removedAddresses]]
       /\ UNCHANGED <<launchVars, cIn, cOut, addressInfos, activeAddress, filters,
                      currentFilter, chainBalance, transactions,
                      fetchingTxHistory, runs, chain>>

\* the callback with the previous filter removed before the new one is
\* installed
InstallStepsOffFirst(installed, current, new) ==
    IF current # Undefined
    THEN <<installed (-) SetToBag({current[1]}),
           (installed (-) SetToBag({current[1]})) (+) SetToBag({new})>>
    ELSE <<installed (+) SetToBag({new})>>

\* lines 246-249 / 253-256: the listeners a contract holds after each call
\* of the callback, contract.on(newFilter) and then contract.off(current)
InstallSteps(installed, current, new) ==
    LET on == installed (+) SetToBag({new})
    IN IF current # Undefined
       THEN <<on, on (-) SetToBag({current[1]})>>
       ELSE <<on>>

\* lines 243-258: the callback of getPolygonClient().then, for one contract
InstallFilter(installed, current, new) ==
    LET steps == InstallSteps(installed, current, new)
    IN steps[Len(steps)]

SubscribeThen ==
    /\ BagIn(SubscribeTask, tasks)
    /\ tasks' = tasks (-) SetToBag({SubscribeTask})
    /\ filters' = [v \in Variants |->
                     InstallFilter(filters[v], currentFilter[v],
                                   subscribedAddresses)]
    /\ currentFilter' = [v \in Variants |-> Some(subscribedAddresses)]
    /\ last' = [op |-> "subscribeThen",
                steps |-> [v \in Variants |->
                             InstallSteps(filters[v], currentFilter[v],
                                          subscribedAddresses)],
                previous |-> currentFilter]
    /\ UNCHANGED <<launchVars, cIn, cOut, addressInfos, activeAddress,
                   subscribedAddresses, balances, nativeBalances,
                   chainBalance, histVars>>

\* line 243: getPolygonClient() rejected, the callback never runs
SubscribeRejected ==
    /\ BagIn(SubscribeTask, tasks)
    /\ tasks' = tasks (-) SetToBag({SubscribeTask})
    /\ last' = [op |-> "step"]
    /\ UNCHANGED <<launchVars, cIn, cOut, addressInfos, activeAddress,
                   subscribedAddresses, balances, nativeBalances, filters,
                   currentFilter, chainBalance, histVars>>

\* lines 161-171, 175-197 / 202-226: Promise.all resolved.  accounts[i] is
\* what balanceOf(addresses[i]) returned: the balance the address had on
\* chain when that call was served.
RefreshResolved ==
    \E t \in BagToSet(tasks) :
        /\ t.type = "refresh"
        /\ \E accounts \in [1..Len(t.addresses) -> chainBalance] :
              LET newBalances == NewBalances(t.addresses, accounts,
                                             Len(t.addresses))
                  r == CompareAndPatch(IF t.variant = BRIDGED THEN balances
                                       ELSE nativeBalances, newBalances)
              IN /\ balances' = IF t.variant = BRIDGED THEN r.cache
                                ELSE balances
                 /\ nativeBalances' = IF t.variant = NATIVE THEN r.cache
                                      ELSE nativeBalances
                 /\ last' = [op |-> "refreshResolved", variant |-> t.variant,
                             newBalances |-> newBalances,
                             patches |-> r.patches]
        /\ tasks' = tasks (-) SetToBag({t})
        /\ UNCHANGED <<launchVars, cIn, cOut, addressInfos, activeAddress,
                       subscribedAddresses, filters, currentFilter,
                       chainBalance, histVars>>

\* a rejected Promise.all whose continuation still runs for the addresses
\* whose balance arrived (the behaviour of Promise.allSettled)
RefreshRejectedKeepsFulfilled ==
    \E t \in BagToSet(tasks) :
        /\ t.type = "refresh"
        /\ tasks' = tasks (-) SetToBag({t})
        /\ \E k \in 1..Len(t.addresses) :
              \E accounts \in [1..Len(t.addresses) -> chainBalance] :
                 LET fulfilled == {t.addresses[i] :
                                     i \in 1..Len(t.addresses) \ {k}}
                     all == NewBalances(t.addresses, accounts,
                                        Len(t.addresses))
                     r == CompareAndPatch(IF t.variant = BRIDGED THEN balances
                                          ELSE nativeBalances,
                                          [a \in fulfilled |-> all[a]])
                 IN /\ balances' = IF t.variant = BRIDGED THEN r.cache
                                   ELSE balances
                    /\ nativeBalances' = IF t.variant = NATIVE THEN r.cache
                                         ELSE nativeBalances
                    /\ last' = [op |-> "refreshRejected", task |-> t,
                                patches |-> r.patches]
        /\ UNCHANGED <<launchVars, cIn, cOut, addressInfos, activeAddress,
                       subscribedAddresses,
                       filters, currentFilter, chainBalance, histVars>>

\* line 175 / 202: Promise.all rejected, nothing after the await runs
RefreshRejected ==
    \E t \in BagToSet(tasks) :
        /\ t.type = "refresh"
        /\ tasks' = tasks (-) SetToBag({t})
        /\ last' = [op |-> "refreshRejected", task |-> t,
                    patches |-> EmptyMap]
        /\ UNCHANGED <<launchVars, cIn, cOut, addressInfos, activeAddress,
                       subscribedAddresses, balances, nativeBalances,
                       filters, currentFilter, chainBalance, histVars>>

\* lines 1190-1199: sendTransaction, once the relayed transfer of `from` is
\* mined, refreshes the balance of `from` in the token it moved
SendTransaction ==
    \E v \in Variants, from \in addressInfos :
        LET w == StartRefresh([tasks |-> tasks, trace |-> <<>>], v, <<from>>)
        IN /\ BagCardinality(w.tasks) <= MaxTasks
           /\ tasks' = w.tasks
           /\ last' = [op |-> "step"]
           /\ UNCHANGED <<launchVars, cIn, cOut, addressInfos, activeAddress,
                          subscribedAddresses, balances, nativeBalances,
                          filters, currentFilter, chainBalance, histVars>>

\* the address a is added to addressStore.state.addressInfos (login, new
\* account)
AddAddress(a) ==
    /\ a \notin addressInfos
    /\ addressInfos' = addressInfos \cup {a}
    /\ last' = [op |-> "step"]
    /\ UNCHANGED <<launchVars, cIn, cOut, activeAddress, subscribedAddresses,
                   balances, nativeBalances, filters, currentFilter,
                   tasks, chainBalance, histVars>>

\* the address a is removed from addressStore.state.addressInfos (logout);
\* addressStore.addressInfo becomes undefined when a was the active address
RemoveAddress(a) ==
    /\ a \in addressInfos
    /\ addressInfos' = addressInfos \ {a}
    /\ activeAddress' = IF activeAddress = a THEN NoValue ELSE activeAddress
    /\ last' = [op |-> "step"]
    /\ UNCHANGED <<launchVars, cIn, cOut, subscribedAddresses,
                   balances, nativeBalances, filters, currentFilter,
                   tasks, chainBalance, histVars>>

\* the address a of the store becomes the active address
SelectAddress(a) ==
    /\ a \in addressInfos /\ activeAddress # a
    /\ activeAddress' = a
    /\ last' = [op |-> "step"]
    /\ UNCHANGED <<launchVars, cIn, cOut, addressInfos, subscribedAddresses,
                   balances, nativeBalances, filters, currentFilter,
                   tasks, chainBalance, histVars>>

AddAddressInfo == \E a \in UserAddresses : AddAddress(a)

RemoveAddressInfo == \E a \in UserAddresses : RemoveAddress(a)

\* SpecSub starts where the module is at rest: the addresses S of the store
\* are subscribed and their balances cached, the filters of S are installed,
\* the history of the addresses M was fetched, nothing is in flight.  S = {}
\* is the module as loaded.  The subscribed addresses hold no funds here
\* (SpecRefresh lets the balances vary).
InitSub ==
    /\ cIn = [variant |-> BRIDGED, environment |-> ENV_MAIN, address |-> X,
              knownHashes |-> {}, logs |-> {}]
    /\ cOut = NoOutput
    /\ chainBalance = {0}
    /\ \E S \in SUBSET UserAddresses, M \in SUBSET UserAddresses,
          cached \in [Variants -> [UserAddresses -> chainBalance]] :
          /\ M \subseteq S
          /\ addressInfos = S /\ subscribedAddresses = S
          /\ fetchedAddresses = M /\ fetchedNativeAddresses = M
          /\ balances = [a \in S |-> cached[BRIDGED][a]]
          /\ nativeBalances = [a \in S |-> cached[NATIVE][a]]
          /\ filters = [v \in Variants |->
                          IF S = {} THEN EmptyBag ELSE SetToBag({S})]
          /\ currentFilter = [v \in Variants |->
                                IF S = {} THEN Undefined ELSE Some(S)]
    /\ activeAddress = NoValue
    /\ tasks = EmptyBag
    /\ transactions = EmptyMap /\ fetchingTxHistory = 0
    /\ runs = EmptyBag /\ chain = NoLogs /\ completed = NoneCompleted
    /\ last = [op |-> "init"]
    /\ Launched

NextSub ==
    \/ AddAddressInfo
    \/ RemoveAddressInfo
    \/ AddressWatcher
    \/ SubscribeThen
    \/ SubscribeRejected
    \/ RefreshResolved
    \/ RefreshRejected

SpecSub == InitSub /\ [][NextSub]_vars

\* SpecRefresh keeps the address store fixed: the addresses S0 are subscribed
\* and some of their balances cached (a refresh that was rejected leaves no
\* entry), the watcher has not yet seen the other addresses of the store.
InitRefresh ==
    /\ cIn = [variant |-> BRIDGED, environment |-> ENV_MAIN, address |-> X,
              knownHashes |-> {}, logs |-> {}]
    /\ cOut = NoOutput
    /\ chainBalance = BalanceValues
    /\ \E S \in SUBSET UserAddresses, S0 \in SUBSET UserAddresses,
          C \in SUBSET UserAddresses, N \in SUBSET UserAddresses :
          /\ S0 \subseteq S /\ C \subseteq S0 /\ N \subseteq S0
          /\ addressInfos = S /\ subscribedAddresses = S0
          /\ balances \in [C -> BalanceValues]
          /\ nativeBalances \in [N -> BalanceValues]
          /\ filters = [v \in Variants |->
                          IF S0 = {} THEN EmptyBag ELSE SetToBag({S0})]
          /\ currentFilter = [v \in Variants |->
                                IF S0 = {} THEN Undefined ELSE Some(S0)]
    /\ fetchedAddresses = {} /\ fetchedNativeAddresses = {}
    /\ activeAddress = NoValue
    /\ tasks = EmptyBag
    /\ transactions = EmptyMap /\ fetchingTxHistory = 0
    /\ runs = EmptyBag /\ chain = NoLogs /\ completed = NoneCompleted
    /\ last = [op |-> "init"]
    /\ Launched

NextRefresh ==
    \/ AddressWatcher
    \/ SubscribeThen
    \/ SubscribeRejected
    \/ SendTransaction
    \/ RefreshResolved
    \/ RefreshRejected

SpecRefresh == InitRefresh /\ [][NextRefresh]_vars

(***************************************************************************)
(* Properties of the balance refresh and of the address watcher.           *)
(***************************************************************************)
CacheOf(v) == IF v = BRIDGED THEN balances ELSE nativeBalances
CacheAfter(v) == IF v = BRIDGED THEN balances' ELSE nativeBalances'

\* C7: a balance refresh that completes emits a patch for an address exactly
\* when the fetched balance differs from the cached one or there is no cache
\* entry, patches the fetched balance, and sets the cache to it; of two
\* refreshes that complete one right after the other with the same balance,
\* the second emits no patch for that address.
C7_PatchIffBalanceChanged ==
    [][last'.op = "refreshResolved" =>
          /\ DOMAIN last'.patches \subseteq DOMAIN last'.newBalances
          /\ \A a \in DOMAIN last'.newBalances :
                /\ a \in DOMAIN last'.patches <=>
                      \/ a \notin DOMAIN CacheOf(last'.variant)
                      \/ CacheOf(last'.variant)[a] # last'.newBalances[a]
                /\ a \in DOMAIN last'.patches =>
                      last'.patches[a] = last'.newBalances[a]
                /\ a \in DOMAIN CacheAfter(last'.variant)
                /\ CacheAfter(last'.variant)[a] = last'.newBalances[a]
                /\ (/\ last.op = "refreshResolved"
                    /\ last.variant = last'.variant
                    /\ a \in DOMAIN last.newBalances
                    /\ last.newBalances[a] = last'.newBalances[a])
                   => a \notin DOMAIN last'.patches
          /\ \A a \in DOMAIN CacheAfter(last'.variant) \ DOMAIN last'.newBalances :
                /\ a \in DOMAIN CacheOf(last'.variant)
                /\ CacheAfter(last'.variant)[a] = CacheOf(last'.variant)[a]
    ]_vars

\* one refresh of two addresses patched the one and found the balance of the
\* other as cached
C7_Witness ==
    /\ last.op = "refreshResolved"
    /\ DOMAIN last.patches # {}
    /\ DOMAIN last.newBalances \ DOMAIN last.patches # {}

TraceAddresses(ev) ==
    UNION {last.trace[i].addresses :
             i \in {j \in 1..Len(last.trace) : last.trace[j].ev = ev}}

\* C8: after every run of the address watcher subscribedAddresses is the
\* address set of the store; the addresses added (and passed to subscribe) are
\* exactly current minus previous, those removed exactly previous minus
\* current.
C8_WatcherReconciles ==
    [][last'.op = "addressWatcher" =>
          /\ subscribedAddresses' = addressInfos
          /\ {last'.newAddresses[i] : i \in 1..Len(last'.newAddresses)}
                = addressInfos \ subscribedAddresses
          /\ Len(last'.newAddresses)
                = Cardinality(addressInfos \ subscribedAddresses)
          /\ last'.removedAddresses = subscribedAddresses \ addressInfos
          /\ TraceAddresses("subscribe")' = addressInfos \ subscribedAddresses
          /\ TraceAddresses("delete")' = subscribedAddresses \ addressInfos
    ]_vars

\* one run added an address and removed another
C8_Witness ==
    /\ last.op = "addressWatcher"
    /\ last.newAddresses # <<>>
    /\ last.removedAddresses # {}
    /\ subscribedAddresses = addressInfos

StartEvents == {"subscribe", "updateBalances", "updateNativeBalances"}

\* C9: in a run of the watcher that removes and adds addresses, the cache
\* entries and the fetched markers of every removed address are deleted before
\* the filter installation and the balance fetches for the added addresses
\* are started.
C9_RemovedForgottenBeforeSubscribe ==
    (last.op = "addressWatcher" /\ last.removedAddresses # {}
        /\ last.newAddresses # <<>>) =>
        /\ \A a \in last.removedAddresses :
              /\ \E i \in 1..Len(last.trace) :
                    last.trace[i].ev = "delete" /\ a \in last.trace[i].addresses
              /\ \E i \in 1..Len(last.trace) :
                    /\ last.trace[i].ev = "forgetBalances"
                    /\ a \in last.trace[i].addresses
              /\ a \notin fetchedAddresses \cup fetchedNativeAddresses
              /\ a \notin DOMAIN balances \cup DOMAIN nativeBalances
        /\ \E j \in 1..Len(last.trace) : last.trace[j].ev \in StartEvents
        /\ \A i, j \in 1..Len(last.trace) :
              (/\ last.trace[i].ev \in {"delete", "forgetBalances"}
               /\ last.trace[j].ev \in StartEvents) => i < j

\* the removed address had a fetched marker and a cached balance
C9_Witness ==
    /\ last.op = "addressWatcher"
    /\ last.newAddresses # <<>>
    /\ \E i, j \in 1..Len(last.trace) :
          /\ last.trace[i].ev = "delete" /\ last.trace[i].had
          /\ last.trace[j].ev = "forgetBalances" /\ last.trace[j].had
          /\ last.trace[i].addresses = last.trace[j].addresses

\* C10: a run of the watcher that finds the address set of the store equal to
\* subscribedAddresses changes nothing: subscribedAddresses, both caches, both
\* marker sets and the installed filters stay, no balance fetch is started.
C10_EqualSetChangesNothing ==
    [][(last'.op = "addressWatcher" /\ addressInfos = subscribedAddresses) =>
          /\ UNCHANGED <<subscribedAddresses, balances, nativeBalances,
                         fetchedAddresses, fetchedNativeAddresses, filters,
                         currentFilter, tasks>>
          /\ last'.trace = <<>>
    ]_vars

\* such a run happened while addresses were subscribed, cached and marked and
\* a refresh was in flight
C10_Witness ==
    /\ last.op = "addressWatcher"
    /\ last.trace = <<>>
    /\ subscribedAddresses # {} /\ subscribedAddresses = addressInfos
    /\ fetchedAddresses # {} /\ fetchedNativeAddresses # {}
    /\ balances # EmptyMap /\ nativeBalances # EmptyMap
    /\ tasks # EmptyBag

(***************************************************************************)
(* The history scans (lines 355-651 bridged, 653-901 native).              *)
(***************************************************************************)
\* config.usdc.earliestHistoryScanHeight, earliestNativeHistoryScanHeight,
\* rpcMaxBlockRange, and the height getPolygonBlockNumber reports
earliestHistoryScanHeight == 0
earliestNativeHistoryScanHeight == 0
rpcMaxBlockRange == 1002
CurrentHeight == 1004
\* line 370 / 667: lastConfirmedHeight - 1000
OverlapMargin == 1000
\* scans in flight per token contract, and scans that may run to their end
MaxRuns == 1
MaxScans == 2
\* cap of network$.fetchingTxHistory
MaxFetching == 2

Max(a, b) == IF a >= b THEN a ELSE b

EarliestOf(v) ==
    IF v = BRIDGED THEN earliestHistoryScanHeight
    ELSE earliestNativeHistoryScanHeight

\* lines 364-366 / 661-663: the stored transactions of the address in the
\* token of the scan; a record without token counts as bridged
IsKnownTx(v, address, tx) ==
    /\ IF v = BRIDGED
       THEN tx.token = NoValue \/ tx.token = usdcContract
       ELSE tx.token = nativeUsdcContract
    /\ (tx.sender = address \/ tx.recipient = address)

knownTxs(v, address, store) ==
    {h \in DOMAIN store : IsKnownTx(v, address, store[h])}

\* lines 367-369 / 664-666
lastConfirmedHeight(store, known) ==
    LET heights == {store[h].blockHeight[1] :
                      h \in {k \in known : /\ store[k].blockHeight # Undefined
                                           /\ store[k].blockHeight[1] # 0}}
    IN IF heights = {} THEN 0
       ELSE CHOOSE m \in heights : \A n \in heights : n <= m

\* a scan that always starts from the configured floor
HistoryWatcherFromFloor(v, address, store, gen) ==
    [variant |-> v, address |-> address, phase |-> "client",
     knownHashes |-> knownTxs(v, address, store),
     earliestHeightToCheck |-> EarliestOf(v),
     blockHeight |-> 0, cur |-> ZeroCursor, gen |-> gen, ranges |-> <<>>,
     counted |-> {}, reads |-> ZeroCursor]

\* lines 358-372 / 655-669: the locals of a scan when its callback suspends
\* at line 376 / 673; ranges lists the block ranges the scan has queried
\* and counted the logs that went through its arithmetic; reads keeps what
\* the four reads answered
HistoryWatcher(v, address, store, gen) ==
    LET known == knownTxs(v, address, store)
    IN [variant |-> v, address |-> address, phase |-> "client",
        knownHashes |-> known,
        earliestHeightToCheck |->
            Max(EarliestOf(v),
                lastConfirmedHeight(store, known) - OverlapMargin),
        blockHeight |-> 0, cur |-> ZeroCursor, gen |-> gen, ranges |-> <<>>,
     counted |-> {}, reads |-> ZeroCursor]

RunsOf(v) == {r \in BagToSet(runs) : r.variant = v}

InFlight(v) ==
    LET S == RunsOf(v)
    IN IF S = {} THEN 0
       ELSE BagCardinality([r \in S |-> runs[r]])

\* the watchers of lines 357 and 654 run one after the other when
\* addressStore.addressInfo (or config.usdc) changed; at most maxRuns scans
\* of a token are in flight and the counter stays within maxFetching
HistoryTriggerUpTo(maxRuns, maxFetching) ==
    LET starts == {v \in Variants :
                     activeAddress \notin
                        (IF v = BRIDGED THEN fetchedAddresses
                         ELSE fetchedNativeAddresses)}
    IN /\ activeAddress # NoValue
       /\ starts # {}
       /\ fetchingTxHistory + Cardinality(starts) <= maxFetching
       /\ \A v \in starts :
             InFlight(v) < maxRuns /\ completed[v].count < MaxScans
       /\ fetchedAddresses' =
             IF BRIDGED \in starts
             THEN fetchedAddresses \cup {activeAddress} ELSE fetchedAddresses
       /\ fetchedNativeAddresses' =
             IF NATIVE \in starts
             THEN fetchedNativeAddresses \cup {activeAddress}
             ELSE fetchedNativeAddresses
       /\ runs' = runs (+) SetToBag(
                     {HistoryWatcher(v, activeAddress, transactions,
                                     completed[v].count + 1) : v \in starts})
       /\ fetchingTxHistory' = fetchingTxHistory + Cardinality(starts)
       /\ last' = [op |-> "step"]
       /\ UNCHANGED <<launchVars, cIn, cOut, subVars, transactions, chain, completed>>

HistoryTrigger == HistoryTriggerUpTo(MaxRuns, MaxFetching)

RECURSIVE SumValues(_)
SumValues(S) ==
    IF S = {} THEN 0
    ELSE LET l == CHOOSE m \in S : TRUE
         IN l.value + SumValues(S \ {l})

\* lines 399-411 / 696-708: balanceOf, nonces and the two allowances of the
\* address.  The token holds what the Transfer logs moved, a nonce was used
\* by each outgoing transaction, and no allowance was ever given.
ReadCursor(logs, address) ==
    [ZeroCursor EXCEPT
        !.balance = SumValues({l \in logs : l.to = address})
                    - SumValues({l \in logs : l.from = address}),
        !.usdcNonce = Cardinality({l.transactionHash :
                                     l \in {m \in logs : m.from = address}})]

\* lines 376-412 / 673-709: client, pool address, the four reads and the
\* block height arrived
RunReads(r, cur) ==
    /\ r.phase = "client"
    /\ runs' = (runs (-) SetToBag({r})) (+) SetToBag(
                  {[r EXCEPT !.phase = "loop",
                             !.blockHeight = CurrentHeight,
                             !.cur = cur,
                             !.reads = cur]})
    /\ last' = [op |-> "step"]
    /\ UNCHANGED <<launchVars, cIn, cOut, subVars, fetchedAddresses,
                   fetchedNativeAddresses, transactions,
                   fetchingTxHistory, chain, completed>>

RunStarts ==
    \E r \in BagToSet(runs) :
        RunReads(r, ReadCursor(chain[r.variant], r.address))

\* a loop that goes on while a remaining quantity differs from zero
LoopConditionNonzero(r) ==
    /\ r.blockHeight > r.earliestHeightToCheck
    /\ \/ r.cur.balance # 0
       \/ r.cur.usdcNonce # 0
       \/ r.cur.transferAllowanceUsed # 0
       \/ r.cur.htlcAllowanceUsed # 0

\* lines 423-428 / 720-725
LoopCondition(r) ==
    /\ r.blockHeight > r.earliestHeightToCheck
    /\ \/ r.cur.balance > 0
       \/ r.cur.usdcNonce > 0
       \/ r.cur.transferAllowanceUsed > 0
       \/ r.cur.htlcAllowanceUsed > 0

\* history: a scan other than a later scan of token v changed the store
\* after the first scan of v had run to its end
NotedWriter(r, store) ==
    [v \in Variants |->
        IF /\ completed[v].count >= 1
           /\ store # transactions
           /\ ~(r.variant = v /\ r.gen >= 2)
        THEN [completed[v] EXCEPT !.alone = FALSE, !.first = Undefined]
        ELSE completed[v]]

\* a range that always spans STEP_BLOCKS
StartHeightNoFloor(r) == r.blockHeight - rpcMaxBlockRange

\* line 428 / 725
StartHeight(r) ==
    Max(r.blockHeight - rpcMaxBlockRange, r.earliestHeightToCheck)

\* lines 441-443 / 738-740: the two queries of a pass
ChunkQueries(r) ==
    {[filter |-> f, address |-> r.address, fromBlock |-> StartHeight(r),
      toBlock |-> r.blockHeight] : f \in {"incoming", "outgoing"}}

\* lines 429-430 / 726-727: the locals of the run after the pass
AfterChunk(r, res) ==
    [r EXCEPT !.blockHeight = StartHeight(r), !.cur = res.cur,
              !.ranges = Append(@, <<StartHeight(r), r.blockHeight>>),
              !.counted = @ \cup {<<res.arith[k].transactionHash,
                                    res.arith[k].logIndex>> :
                                      k \in 1..Len(res.arith)}]

\* lines 441-617 / 738-868 for the run r: the chunk's newLogs and locals
ChunkResult(r) ==
    LET startHeight == StartHeight(r)
        ctx == [address |-> r.address, variant |-> r.variant,
                environment |-> cIn.environment,
                knownHashes |-> r.knownHashes]
        res == ScanChunk(ctx, r.cur,
                   queryIncoming(chain[r.variant], r.address,
                                 startHeight, r.blockHeight),
                   queryOutgoing(chain[r.variant], r.address,
                                 startHeight, r.blockHeight))
    IN [newLogs |-> res.newLogs, cur |-> res.cur, arith |-> res.arith,
        transactions |-> ChunkTransactions(ctx, res.cur, chain[r.variant],
                                           res.newLogs)]

RECURSIVE ScanToEnd(_)
\* lines 422-636 / 719-886: the locals of the run r when its loop has ended
ScanToEnd(r) ==
    IF LoopCondition(r) THEN ScanToEnd(AfterChunk(r, ChunkResult(r))) ELSE r

\* one pass of the while loop that keeps its Transactions for the end of
\* the scan instead of handing them to the store
RunChunkDefersPersist ==
    \E r \in BagToSet(runs) :
        /\ r.phase = "loop"
        /\ LoopCondition(r)
        /\ runs' = (runs (-) SetToBag({r})) (+) SetToBag(
                      {AfterChunk(r, ChunkResult(r))})
        /\ last' = [op |-> "chunk", run |-> r,
                    transactions |-> ChunkResult(r).transactions,
                    after |-> AfterChunk(r, ChunkResult(r)),
                    queries |-> ChunkQueries(r),
                    arith |-> ChunkResult(r).arith]
        /\ UNCHANGED <<launchVars, cIn, cOut, subVars, fetchedAddresses,
                       fetchedNativeAddresses, transactions,
                       fetchingTxHistory, chain, completed>>

\* lines 429-634 / 726-884: one pass of the while loop
RunChunk ==
    \E r \in BagToSet(runs) :
        /\ r.phase = "loop"
        /\ LoopCondition(r)
        /\ LET startHeight == StartHeight(r)
               endHeight == r.blockHeight
               ctx == [address |-> r.address, variant |-> r.variant,
                       environment |-> cIn.environment,
                       knownHashes |-> r.knownHashes]
               res == ScanChunk(ctx, r.cur,
                          queryIncoming(chain[r.variant], r.address,
                                        startHeight, endHeight),
                          queryOutgoing(chain[r.variant], r.address,
                                        startHeight, endHeight))
               txs == ChunkTransactions(ctx, res.cur, chain[r.variant],
                                        res.newLogs)
               store == addTransactions(transactions, txs)
           IN /\ transactions' = store
              /\ runs' = (runs (-) SetToBag({r})) (+) SetToBag(
                            {AfterChunk(r, res)})
              /\ completed' = NotedWriter(r, store)
              /\ last' = [op |-> "chunk", run |-> r, transactions |-> txs,
                          after |-> AfterChunk(r, res),
                          queries |-> ChunkQueries(r),
                          arith |-> res.arith]
        /\ UNCHANGED <<launchVars, cIn, cOut, subVars, fetchedAddresses,
                       fetchedNativeAddresses, fetchingTxHistory, chain>>

\* lines 638-650 / 887-900: the loop ended, the counter is decremented
RunCompletes ==
    \E r \in BagToSet(runs) :
        /\ r.phase = "loop"
        /\ ~LoopCondition(r)
        /\ runs' = runs (-) SetToBag({r})
        /\ fetchingTxHistory' = fetchingTxHistory - 1
        /\ completed' =
              [completed EXCEPT ![r.variant] =
                  [count |-> @.count + 1,
                   first |-> IF @.count = 0 /\ @.alone
                             THEN Some(transactions) ELSE @.first,
                   alone |-> @.alone,
                   done |-> IF /\ r.address \in subscribedAddresses
                               /\ r.address \in
                                     (IF r.variant = BRIDGED
                                      THEN fetchedAddresses
                                      ELSE fetchedNativeAddresses)
                            THEN @.done \cup {r.address} ELSE @.done]]
        /\ last' = [op |-> "completes", run |-> r]
        /\ UNCHANGED <<launchVars, cIn, cOut, subVars, fetchedAddresses,
                       fetchedNativeAddresses, transactions, chain>>

\* lines 646-650 / 895-899: a read, a query or a fetch inside the promise
\* chain was rejected
RunRejected ==
    \E r \in BagToSet(runs) :
        /\ runs' = runs (-) SetToBag({r})
        /\ fetchedAddresses' =
              IF r.variant = BRIDGED THEN fetchedAddresses \ {r.address}
              ELSE fetchedAddresses
        /\ fetchedNativeAddresses' =
              IF r.variant = NATIVE THEN fetchedNativeAddresses \ {r.address}
              ELSE fetchedNativeAddresses
        /\ fetchingTxHistory' = fetchingTxHistory - 1
        /\ last' = [op |-> "step"]
        /\ UNCHANGED <<launchVars, cIn, cOut, subVars, transactions, chain, completed>>

\* lines 376-377 / 673-674: getPolygonClient or getPoolAddress was rejected;
\* the callback ends there
RunClientRejected ==
    \E r \in BagToSet(runs) :
        /\ r.phase = "client"
        /\ runs' = runs (-) SetToBag({r})
        /\ last' = [op |-> "step"]
        /\ UNCHANGED <<launchVars, cIn, cOut, subVars, fetchedAddresses,
                       fetchedNativeAddresses, transactions,
                       fetchingTxHistory, chain, completed>>

\* SpecHist: the address X of the user on a chain that does not change.
\* X received 2 bridged USDC from Y in h1 and sent 1 to Y in h2, paying a
\* fee of 1 to the relay pool; h1 also paid X 1 native USDC, and h3 paid X 1
\* native USDC long before.
bA == [transactionHash |-> "h1", logIndex |-> 0, from |-> Y, to |-> X,
       value |-> 2, blockNumber |-> 1003]
bB == [transactionHash |-> "h2", logIndex |-> 1, from |-> X, to |-> Y,
       value |-> 1, blockNumber |-> 1003]
bF == [transactionHash |-> "h2", logIndex |-> 2, from |-> X,
       to |-> poolAddress, value |-> 1, blockNumber |-> 1003]
nA == [transactionHash |-> "h1", logIndex |-> 3, from |-> Y, to |-> X,
       value |-> 1, blockNumber |-> 1003]
nD == [transactionHash |-> "h3", logIndex |-> 0, from |-> Y, to |-> X,
       value |-> 1, blockNumber |-> 1]

Chains ==
    {[v \in Variants |-> IF v = BRIDGED THEN b ELSE n] :
        b \in {{bA}, {bA, bB, bF}}, n \in {{}, {nA, nD}}}

\* what an earlier session left in the store: nothing, or the transfer of h2
\* as it was imported for its recipient Y, without the fee
StoredEarlier(logs) ==
    {EmptyMap} \cup
    (IF bB \in logs[BRIDGED]
     THEN {MapSet(EmptyMap, bB.transactionHash,
                  logAndBlockToPlain(usdcContract, ToEvent(bB),
                                     Some(bB.blockNumber), Undefined))}
     ELSE {})

InitHist ==
    /\ cIn = [variant |-> BRIDGED, environment |-> ENV_MAIN, address |-> X,
              knownHashes |-> {}, logs |-> {}]
    /\ cOut = NoOutput
    /\ ModuleLoaded
    /\ addressInfos = {} /\ activeAddress = NoValue
    /\ chainBalance = {0}
    /\ chain \in Chains
    /\ transactions \in StoredEarlier(chain)
    /\ fetchingTxHistory = 0
    /\ runs = EmptyBag /\ completed = NoneCompleted
    /\ last = [op |-> "init"]
    /\ Launched

\* The callbacks of subscribe touch the filters and the balance caches only,
\* which no scan reads: they are taken before the next step of anything else.
NextHist ==
    \/ SubscribeThen
    \/ RefreshResolved
    \/ /\ tasks = EmptyBag
       /\ \/ AddAddress(X)
          \/ RemoveAddress(X)
          \/ SelectAddress(X)
          \/ AddressWatcher
          \/ HistoryTrigger
          \/ RunStarts
          \/ RunChunk
          \/ RunCompletes
          \/ RunRejected
          \/ RunClientRejected

SpecHist == InitHist /\ [][NextHist]_vars

\* C5: a history scan never persists a Transaction whose transactionHash was
\* in its knownHashes, the hashes of the stored transactions of its address
\* and token read when it was triggered; the stored record of a known hash
\* gets no fee and no Failed record replaces it.
C5_KnownHashNeverPersisted ==
    last.op = "chunk" =>
        /\ \A k \in 1..Len(last.transactions) :
              last.transactions[k].transactionHash \notin last.run.knownHashes
        /\ \A h \in last.run.knownHashes :
              h \in DOMAIN transactions =>
                  \A k \in 1..Len(last.transactions) :
                      transactions[h] # last.transactions[k]

\* the first chunk of a bridged scan held the fee log of h2, whose transfer
\* was stored without a fee: it persisted h1 and left h2 as it was
C5_Witness ==
    /\ last.op = "chunk"
    /\ last.run.variant = BRIDGED
    /\ last.run.blockHeight = CurrentHeight
    /\ bF \in chain[BRIDGED]
    /\ "h2" \in last.run.knownHashes
    /\ "h2" \in DOMAIN transactions
    /\ transactions["h2"].fee = Undefined
    /\ transactions["h2"].state = TransactionState.MINED
    /\ Len(last.transactions) > 0

\* C6 as stated: a scan of an address that runs to its end a second time,
\* started after the fetched marker was reset, on the unchanged chain leaves
\* the store with the keys and the records it had when the first scan ended
\* (no other scan wrote in between).
C6_AsStated ==
    (/\ last.op = "completes"
     /\ last.run.gen = 2
     /\ completed[last.run.variant].alone) =>
        transactions = completed[last.run.variant].first[1]

(***************************************************************************)
(* Removal and re-subscription of an address (lines 229-234, 338-353).     *)
(***************************************************************************)
\* C11 as stated: an address the watcher removed is re-reported as new when
\* it is added again with unchanged balances.  The refresh of the
\* re-subscription patches the balance and the native balance of an address
\* exactly when the caches hold no entry for it (line 180 / 207), so when
\* the watcher subscribes an address neither cache holds an entry for it;
\* and when the watcher removed an address neither fetched marker is set
\* for it, so that the next history trigger for it passes the guards of
\* lines 359 and 656.
C11_AsStated ==
    last.op = "addressWatcher" =>
        /\ \A i \in 1..Len(last.newAddresses) :
              /\ last.newAddresses[i] \notin DOMAIN balances
              /\ last.newAddresses[i] \notin DOMAIN nativeBalances
        /\ \A a \in last.removedAddresses :
              a \notin fetchedAddresses \cup fetchedNativeAddresses

(***************************************************************************)
(* SpecRuns: the history scans of address X while X is removed from the    *)
(* address store and added again, with scans of one token overlapping.     *)
(***************************************************************************)
\* scans of one token in flight, and the cap of network$.fetchingTxHistory
MaxOverlap == 2
MaxCounter == 3

\* X funds an escrow contract with 1 bridged USDC in h2
bH == [transactionHash |-> "h2", logIndex |-> 1, from |-> X,
       to |-> htlcContract, value |-> 1, blockNumber |-> 1003]

\* lines 619-623 / 870-873: the chunk awaits a receipt lookup for one of
\* its new logs
AwaitsReceipt(c) ==
    \E k \in 1..Len(c.newLogs) :
        c.newLogs[k].transactionHash \in
            DOMAIN c.cur.htlcEvents \cup DOMAIN c.cur.uniswapEvents

\* lines 537, 566, 594 and 626-635: log.getTransactionReceipt() of a new
\* log was rejected.  The promise stored in the event map has no handler of
\* its own, so `await event` throws inside Promise.all and the chain goes
\* to its catch (lines 646-650).
RunReceiptRejected ==
    \E r \in BagToSet(runs) :
        /\ r.phase = "loop"
        /\ LoopCondition(r)
        /\ AwaitsReceipt(ChunkResult(r))
        /\ runs' = runs (-) SetToBag({r})
        /\ fetchedAddresses' =
              IF r.variant = BRIDGED THEN fetchedAddresses \ {r.address}
              ELSE fetchedAddresses
        /\ fetchedNativeAddresses' =
              IF r.variant = NATIVE THEN fetchedNativeAddresses \ {r.address}
              ELSE fetchedNativeAddresses
        /\ fetchingTxHistory' = fetchingTxHistory - 1
        /\ last' = [op |-> "receiptRejected", run |-> r,
                    transactions |-> ChunkResult(r).transactions]
        /\ UNCHANGED <<launchVars, cIn, cOut, subVars, transactions, chain, completed>>

HistoryTriggerOverlapping == HistoryTriggerUpTo(MaxOverlap, MaxCounter)

InitRuns ==
    /\ cIn = [variant |-> BRIDGED, environment |-> ENV_MAIN, address |-> X,
              knownHashes |-> {}, logs |-> {}]
    /\ cOut = NoOutput
    /\ ModuleLoaded
    /\ addressInfos = {} /\ activeAddress = NoValue
    /\ chainBalance = {0}
    /\ chain = [v \in Variants |-> IF v = BRIDGED THEN {bA, bH} ELSE {}]
    /\ transactions = EmptyMap
    /\ fetchingTxHistory = 0
    /\ runs = EmptyBag /\ completed = NoneCompleted
    /\ last = [op |-> "init"]
    /\ Launched

NextRuns ==
    \/ SubscribeThen
    \/ RefreshResolved
    \/ /\ tasks = EmptyBag
       /\ \/ AddAddress(X)
          \/ RemoveAddress(X)
          \/ SelectAddress(X)
          \/ AddressWatcher
          \/ HistoryTriggerOverlapping
          \/ RunStarts
          \/ RunChunk
          \/ RunReceiptRejected
          \/ RunCompletes
          \/ RunRejected
          \/ RunClientRejected

SpecRuns == InitRuns /\ [][NextRuns]_vars

RunsOfPair(a, v) == {r \in BagToSet(runs) : r.address = a /\ r.variant = v}

\* the number of scans of address a in token v that are in progress
InProgress(a, v) ==
    LET S == RunsOfPair(a, v)
    IN IF S = {} THEN 0 ELSE BagCardinality([r \in S |-> runs[r]])

\* C12 as stated: for every address and token variant at most one history
\* scan is in progress at any time, whatever the interleaving of triggers,
\* scan completion, scan failure and removal and re-subscription of the
\* address.
C12_AsStated ==
    \A a \in UserAddresses, v \in Variants : InProgress(a, v) <= 1

\* a scan r of the pre-state ended in this step other than by running to
\* its end: one of its fetches was rejected
ScanRejected(r) ==
    /\ BagIn(r, runs)
    /\ runs' = runs (-) SetToBag({r})
    /\ last'.op # "completes"

MarkersAfter(v) ==
    IF v = BRIDGED THEN fetchedAddresses' ELSE fetchedNativeAddresses'

\* C13 as stated: whenever a fetch of a history scan is rejected (the
\* client, the pool address, the initial reads, the height, a log query, a
\* block or a receipt), the scan ends with the fetched marker of its address
\* and token cleared and the in-flight counter decremented by exactly one.
C13_AsStated ==
    [][\A r \in BagToSet(runs) :
          ScanRejected(r) =>
              /\ r.address \notin MarkersAfter(r.variant)
              /\ fetchingTxHistory' = fetchingTxHistory - 1]_vars

\* C15 as stated: the in-flight counter equals the number of history scans
\* that have started and not yet ended, successfully or not; it is never
\* negative and is 0 when no scan is in progress.
C15_AsStated ==
    /\ fetchingTxHistory = BagCardinality(runs)
    /\ fetchingTxHistory >= 0

Markers(v) == IF v = BRIDGED THEN fetchedAddresses ELSE fetchedNativeAddresses

\* C14 as stated: after a history scan of a watched address ended
\* successfully with its fetched marker set, the marker of the address and
\* token stays set (a later trigger returns at line 359 / 656 without a
\* query, a Transaction or a change of the counter) until the address is
\* removed from the watch set.
C14_AsStated ==
    \A v \in Variants : completed[v].done \subseteq Markers(v)

\* C16 as stated: when the receipt fetch for the escrow or swap event of a
\* log is rejected during a chunk, the Transaction of that log is persisted
\* without an event, the other Transactions of the chunk are persisted too,
\* and the scan goes on.
C16_AsStated ==
    last.op = "receiptRejected" =>
        /\ \A k \in 1..Len(last.transactions) :
              LET h == last.transactions[k].transactionHash
              IN /\ h \in DOMAIN transactions
                 /\ transactions[h].logIndex = last.transactions[k].logIndex
        /\ \E r \in BagToSet(runs) :
              /\ r.address = last.run.address
              /\ r.variant = last.run.variant
              /\ r.gen = last.run.gen

(***************************************************************************)
(* SpecScan: the history scans of the subscribed, active address X while   *)
(* the address store does not change.                                      *)
(***************************************************************************)
\* h1 pays X a second time, 1 bridged USDC
bC == [transactionHash |-> "h1", logIndex |-> 4, from |-> Y, to |-> X,
       value |-> 1, blockNumber |-> 1003]

ScanChains ==
    Chains \cup {[v \in Variants |-> IF v = BRIDGED THEN {bA, bC}
                                     ELSE {nA, nD}]}

InitScan ==
    /\ cIn = [variant |-> BRIDGED, environment |-> ENV_MAIN, address |-> X,
              knownHashes |-> {}, logs |-> {}]
    /\ cOut = NoOutput
    /\ addressInfos = {X} /\ activeAddress = X
    /\ subscribedAddresses = {X}
    /\ fetchedAddresses = {} /\ fetchedNativeAddresses = {}
    /\ chainBalance = {0}
    /\ balances = [a \in {X} |-> 0] /\ nativeBalances = [a \in {X} |-> 0]
    /\ filters = [v \in Variants |-> SetToBag({{X}})]
    /\ currentFilter = [v \in Variants |-> Some({X})]
    /\ tasks = EmptyBag
    /\ chain \in ScanChains
    /\ transactions \in StoredEarlier(chain)
    /\ fetchingTxHistory = 0
    /\ runs = EmptyBag /\ completed = NoneCompleted
    /\ last = [op |-> "init"]
    /\ Launched

NextScan ==
    \/ HistoryTrigger
    \/ RunStarts
    \/ RunChunk
    \/ RunCompletes
    \/ RunRejected
    \/ RunClientRejected

SpecScan == InitScan /\ [][NextScan]_vars

\* C17: the Transactions of a chunk are in the store, under their
\* transactionHash, as soon as the chunk ends, and a scan that fails later
\* leaves the store as it is.
C17_ChunksDurable ==
    [][/\ last'.op = "chunk" =>
              \A k \in 1..Len(last'.transactions) :
                  LET h == last'.transactions[k].transactionHash
                  IN /\ h \in DOMAIN transactions'
                     /\ \E j \in 1..Len(last'.transactions) :
                           transactions'[h] = last'.transactions[j]
       /\ \A r \in BagToSet(runs) :
              ScanRejected(r) => transactions' = transactions]_vars

\* the native scan stored h1 with its first chunk and was rejected before
\* the chunk that holds h3
C17_Witness ==
    /\ chain[NATIVE] = {nA, nD}
    /\ "h1" \in DOMAIN transactions
    /\ transactions["h1"].token = nativeUsdcContract
    /\ "h3" \notin DOMAIN transactions
    /\ InFlight(NATIVE) = 0
    /\ completed[NATIVE].count = 0
    /\ X \notin fetchedNativeAddresses

(***************************************************************************)
(* The live transfer listener (lines 265-311).                             *)
(***************************************************************************)
\* Transfer events of the two token contracts that the provider may
\* deliver: a payment of Y to X, a payout of the token's escrow contract to
\* X, a payment of value zero, and a payment of Y to nobody the wallet knows
LiveLogs(v) ==
    {[transactionHash |-> "h1", logIndex |-> 0, from |-> Y, to |-> X,
      value |-> 1, blockNumber |-> CurrentHeight],
     [transactionHash |-> "h2", logIndex |-> 1, from |-> HtlcOf(v), to |-> X,
      value |-> 1, blockNumber |-> CurrentHeight],
     [transactionHash |-> "h3", logIndex |-> 0, from |-> Y, to |-> X,
      value |-> 0, blockNumber |-> CurrentHeight],
     [transactionHash |-> "h4", logIndex |-> 0, from |-> Y,
      to |-> swapPoolContract, value |-> 1, blockNumber |-> CurrentHeight]}

\* the provider calls the listener for the events of the installed filters,
\* Transfer(null, [...subscribedAddresses]) (lines 245-246, 252-253)
Delivered(v, l) == \E f \in BagToSet(filters[v]) : l.to \in f

\* the checks before the first await without the test of line 267
ListenerProceedsAnyValue(v, l) ==
    /\ l.from \in DOMAIN balances \/ l.to \in DOMAIN balances
    /\ l.transactionHash \notin DOMAIN transactions
    /\ ~(v = NATIVE /\ l.from = swapPoolContract)

\* lines 266-279: the checks before the first await
ListenerProceeds(v, l) ==
    /\ l.from \in DOMAIN balances \/ l.to \in DOMAIN balances
    /\ l.value # 0
    /\ l.transactionHash \notin DOMAIN transactions
    /\ ~(v = NATIVE /\ l.from = swapPoolContract)

\* a listener call waiting in Promise.all (line 281)
ListenerTask(v, l) ==
    [type |-> "listener", variant |-> v, addresses |-> <<>>, log |-> l]

\* line 284: the receipt is fetched for a payout of an escrow contract
NeedsReceipt(l) == l.from \in {htlcContract, nativeHtlcContract}

\* what log.getTransactionReceipt() may resolve to: the receipt of the
\* log's transaction, or a receipt in which the provider lists no log of
\* the token
ReceiptAnswers(v, l) == {ReceiptLogsOf(v, <<l>>), <<>>}

\* lines 289-294 with an error of receiptToTransaction answered by the
\* plain Transaction of the log
ListenerTransactionFallsBack(v, env, l, receipt) ==
    LET plain == Some(logAndBlockToPlain(TokenOf(v), ToEvent(l),
                                         Some(l.blockNumber), Undefined))
    IN IF receipt # Undefined
       THEN LET tx == receiptToTransaction(v, env, receipt[1], Undefined,
                                           Some(l.blockNumber))
            IN IF tx = Undefined THEN plain ELSE tx
       ELSE plain

\* lines 289-294: the Transaction of the event, Undefined when
\* receiptToTransaction throws
ListenerTransaction(v, env, l, receipt) ==
    IF receipt # Undefined
    THEN receiptToTransaction(v, env, receipt[1], Undefined,
                              Some(l.blockNumber))
    ELSE Some(logAndBlockToPlain(TokenOf(v), ToEvent(l),
                                 Some(l.blockNumber), Undefined))

\* lines 298-304
ListenerAddresses(l) ==
    (IF l.from \in DOMAIN balances THEN <<l.from>> ELSE <<>>)
    \o (IF l.to \in DOMAIN balances THEN <<l.to>> ELSE <<>>)

\* lines 265-281: the provider delivers an event; the listener returns at
\* one of its checks or waits for the block and the receipt
TransactionListenerUpTo(maxTasks) ==
    \E v \in Variants : \E l \in LiveLogs(v) :
        /\ Delivered(v, l)
        /\ BagCardinality(tasks) < maxTasks
        /\ tasks' = IF ListenerProceeds(v, l)
                    THEN tasks (+) SetToBag({ListenerTask(v, l)})
                    ELSE tasks
        /\ last' = [op |-> "listener", variant |-> v, log |-> l,
                    proceeds |-> ListenerProceeds(v, l)]
        /\ UNCHANGED <<launchVars, cIn, cOut, addressInfos, activeAddress,
                       subscribedAddresses, balances, nativeBalances,
                       filters, currentFilter, chainBalance, histVars>>

TransactionListener == TransactionListenerUpTo(MaxTasks)

\* lines 281-310: block and receipt arrived
ListenerResolved ==
    \E t \in BagToSet(tasks) :
        /\ t.type = "listener"
        /\ \E receipt \in IF NeedsReceipt(t.log)
                          THEN {Some(r) : r \in ReceiptAnswers(t.variant,
                                                               t.log)}
                          ELSE {Undefined} :
              LET tx == ListenerTransaction(t.variant, cIn.environment,
                                            t.log, receipt)
                  w == StartRefresh([tasks |-> tasks (-) SetToBag({t}),
                                     trace |-> <<>>],
                                    t.variant, ListenerAddresses(t.log))
              IN /\ transactions' =
                       IF tx = Undefined THEN transactions
                       ELSE addTransactions(transactions, tx)
                 /\ tasks' = IF tx = Undefined
                             THEN tasks (-) SetToBag({t}) ELSE w.tasks
                 /\ last' = [op |-> "listenerResolved", task |-> t,
                             receipt |-> receipt, transaction |-> tx]
        /\ UNCHANGED <<launchVars, cIn, cOut, addressInfos, activeAddress,
                       subscribedAddresses, balances, nativeBalances,
                       filters, currentFilter, chainBalance,
                       fetchedAddresses, fetchedNativeAddresses,
                       fetchingTxHistory, runs, chain, completed>>

\* line 281: log.getBlock() or log.getTransactionReceipt() was rejected
ListenerRejected ==
    \E t \in BagToSet(tasks) :
        /\ t.type = "listener"
        /\ tasks' = tasks (-) SetToBag({t})
        /\ last' = [op |-> "step"]
        /\ UNCHANGED <<launchVars, cIn, cOut, addressInfos, activeAddress,
                       subscribedAddresses, balances, nativeBalances,
                       filters, currentFilter, chainBalance, histVars>>

\* SpecListen: the addresses S are subscribed and cached, their filters are
\* installed and the store is empty; events arrive, and receiptToTransaction
\* is applied to the receipt of h1 of a drawn input.
ListenInputs ==
    {[variant |-> v, environment |-> ENV_MAIN, address |-> X,
      knownHashes |-> {}, logs |-> logs] :
        v \in Variants,
        logs \in {{}} \cup
                 {{[transactionHash |-> "h1", logIndex |-> 0,
                    from |-> sh[1], to |-> sh[2], value |-> 1,
                    blockNumber |-> ChunkBlock]} :
                     sh \in {<<X, Y>>, <<Y, X>>, <<X, poolAddress>>,
                             <<Y, poolAddress>>}}}

InitListen ==
    /\ cIn \in ListenInputs
    /\ cOut = NoOutput
    /\ chainBalance = {0}
    /\ \E S \in SUBSET UserAddresses :
          /\ addressInfos = S /\ subscribedAddresses = S
          /\ balances = [a \in S |-> 0]
          /\ nativeBalances = [a \in S |-> 0]
          /\ filters = [v \in Variants |->
                          IF S = {} THEN EmptyBag ELSE SetToBag({S})]
          /\ currentFilter = [v \in Variants |->
                                IF S = {} THEN Undefined ELSE Some(S)]
    /\ fetchedAddresses = {} /\ fetchedNativeAddresses = {}
    /\ activeAddress = NoValue
    /\ tasks = EmptyBag
    /\ transactions = EmptyMap /\ fetchingTxHistory = 0
    /\ runs = EmptyBag /\ chain = NoLogs /\ completed = NoneCompleted
    /\ last = [op |-> "init"]
    /\ Launched

NextListen ==
    \/ ClassifyReceipt
    \/ TransactionListener
    \/ ListenerResolved
    \/ ListenerRejected
    \/ RefreshResolved
    \/ RefreshRejected

SpecListen == InitListen /\ [][NextListen]_vars

\* the Transfer logs of the receipt of h1 that pass the sender filter
ReceiptCandidates(in, filter) ==
    {l \in in.logs : /\ l.transactionHash = "h1"
                     /\ (filter = Undefined \/ l.from = filter[1])}

\* C19: receiptToTransaction fails with an error, and returns no
\* Transaction, when the receipt holds neither a primary transfer log nor a
\* fee log after the optional sender filter; when the live listener called
\* it, the event adds nothing to the store, leaves both caches as they are
\* and starts no balance refresh.
C19_NoLogNoTransaction ==
    [][/\ (cOut'.op = "receipt" /\ ReceiptCandidates(cIn, cOut'.filter) = {})
              => cOut'.result = Undefined
       /\ (/\ last'.op = "listenerResolved"
           /\ tasks' # tasks
           /\ last'.receipt # Undefined
           /\ \A k \in 1..Len(last'.receipt[1]) :
                 last'.receipt[1][k].name # "Transfer")
              => /\ transactions' = transactions
                 /\ tasks' = tasks (-) SetToBag({last'.task})
                 /\ balances' = balances
                 /\ nativeBalances' = nativeBalances]_vars

\* the receipt answered for the escrow payout h2 held no transfer log:
\* the listener call ended without a Transaction
C19_Witness ==
    /\ last.op = "listenerResolved"
    /\ last.task.log.transactionHash = "h2"
    /\ last.receipt = Some(<<>>)
    /\ last.transaction = Undefined
    /\ "h2" \notin DOMAIN transactions

(***************************************************************************)
(* The list a chunk hands to addTransactions (lines 461-464, 616-635).     *)
(***************************************************************************)
\* C18 as stated: the list of Transactions that one chunk passes to
\* addTransactions holds at most one Transaction per transactionHash, for
\* every combination of incoming and outgoing logs the two queries return.
C18_AsStated ==
    cOut.op = "chunk" =>
        \A j, k \in 1..Len(cOut.transactions) :
            cOut.transactions[j].transactionHash
                = cOut.transactions[k].transactionHash => j = k

(***************************************************************************)
(* The scan of an address that holds nothing (lines 422-427, 719-724).     *)
(***************************************************************************)
\* the scan r found nothing to account for when its reads arrived
NothingRemains(r) ==
    /\ r.cur.balance = 0
    /\ r.cur.usdcNonce = 0
    /\ r.cur.transferAllowanceUsed = 0
    /\ r.cur.htlcAllowanceUsed = 0

\* a scan that has passed its reads and made no pass of the loop yet
BeforeFirstChunk(r) == r.phase = "loop" /\ r.blockHeight = CurrentHeight

\* C20 as stated: a scan whose initial remaining balance, remaining nonce
\* and two remaining allowances are all zero makes no pass of the loop: no
\* chunk is enabled for it, and unless a fetch is rejected its next step is
\* its successful end, which persists nothing and leaves the marker of its
\* address and token set (for an address that is in the watch set then).
C20_AsStated ==
    [][\A r \in BagToSet(runs) :
          (BeforeFirstChunk(r) /\ NothingRemains(r)) =>
              /\ ~LoopCondition(r)
              /\ (BagIn(r, runs) /\ runs' = runs (-) SetToBag({r})
                  /\ last'.op = "completes")
                    => /\ transactions' = transactions
                       /\ r.address \in subscribedAddresses =>
                             r.address \in MarkersAfter(r.variant)
              /\ last'.op = "chunk" => last'.run # r]_vars

(***************************************************************************)
(* SpecLoop: the while loop of one scan of X over chains whose logs lie in *)
(* the newest blocks, in the block two consecutive ranges share, and in    *)
(* the oldest blocks, for every answer of nonces and allowance within the  *)
(* bounds.  The scan of the other token has run to its end before.         *)
(***************************************************************************)
MaxNonce == 2
MaxAllowanceUsed == 1

\* the height both ranges of a scan from CurrentHeight down to 0 contain
SharedBlock == CurrentHeight - rpcMaxBlockRange

LoopLog(h, i, from, to, value, block) ==
    [transactionHash |-> h, logIndex |-> i, from |-> from, to |-> to,
     value |-> value, blockNumber |-> block]

\* the transfer of h1 in block 1003, its fee, the transfer of h2 in the
\* shared block and the funding of X by h3 in block 1
LoopChains(v) ==
    {a \cup f \cup b \cup o :
        a \in {{}} \cup {{LoopLog("h1", 0, sh[1], sh[2], sh[3], 1003)} :
                  sh \in {<<X, Y, 1>>, <<X, HtlcOf(v), 1>>, <<X, X, 1>>,
                          <<X, Y, 0>>, <<Y, X, 1>>}},
        f \in {{}, {LoopLog("h1", 1, X, poolAddress, 1, 1003)}},
        b \in {{}} \cup {{LoopLog("h2", 0, sh[1], sh[2], sh[3], SharedBlock)} :
                  sh \in {<<Y, X, 2>>, <<X, Y, 1>>, <<X, HtlcOf(v), 1>>}},
        o \in {{}, {LoopLog("h3", 0, Y, X, 3, 1)}}}

\* X never sent what it did not hold
Solvent(logs, address) ==
    \A b \in {l.blockNumber : l \in logs} :
        SumValues({l \in logs : l.to = address /\ l.blockNumber <= b})
            >= SumValues({l \in logs : l.from = address /\ l.blockNumber <= b})

\* lines 399-409 / 696-706: balanceOf is what the Transfer logs moved;
\* nonces counts the permits X signed and the allowances are what X granted
\* less what was spent, whichever contract they were signed or granted for
Readings(logs, address) ==
    {[ReadCursor(logs, address) EXCEPT !.usdcNonce = n,
                                       !.transferAllowanceUsed = t,
                                       !.htlcAllowanceUsed = h] :
        n \in 0..MaxNonce, t \in 0..MaxAllowanceUsed,
        h \in 0..MaxAllowanceUsed}

\* lines 376-412 / 673-709 with every answer of the four reads
RunStartsReading ==
    \E r \in BagToSet(runs) :
        \E cur \in Readings(chain[r.variant], r.address) : RunReads(r, cur)

\* the Transaction a scan of token v stored for the log l
StoredFor(v, l) ==
    logAndBlockToPlain(TokenOf(v), ToEvent(l), Some(l.blockNumber), Undefined)

\* what an earlier session left in the store of the scanned token: nothing,
\* or the transfer of h1
StoredOfLoop(v, logs) ==
    {EmptyMap} \cup
    {MapSet(EmptyMap, l.transactionHash, StoredFor(v, l)) :
        l \in {m \in logs : /\ m.transactionHash = "h1" /\ m.logIndex = 0
                            /\ m.value # 0}}

\* the other token of X: untouched, or one payment of Y in block 1003, which
\* the scan of that token has stored
OtherLogs == {{}, {LoopLog("h4", 0, Y, X, 1, 1003)}}

InitLoop ==
    \E v \in Variants :
        /\ cIn = [variant |-> v, environment |-> ENV_MAIN, address |-> X,
                  knownHashes |-> {}, logs |-> {}]
        /\ cOut = NoOutput
        /\ addressInfos = {X} /\ activeAddress = X
        /\ subscribedAddresses = {X}
        /\ fetchedAddresses = (IF v = BRIDGED THEN {} ELSE {X})
        /\ fetchedNativeAddresses = (IF v = NATIVE THEN {} ELSE {X})
        /\ balances = [a \in {X} |-> 0]
        /\ nativeBalances = [a \in {X} |-> 0]
        /\ filters = [w \in Variants |-> SetToBag({{X}})]
        /\ currentFilter = [w \in Variants |-> Some({X})]
        /\ tasks = EmptyBag
        /\ chainBalance = {0}
        /\ \E logs \in {c \in LoopChains(v) : Solvent(c, X)},
              other \in OtherLogs :
              /\ chain = [w \in Variants |-> IF w = v THEN logs ELSE other]
              /\ \E store \in StoredOfLoop(v, logs) :
                    transactions =
                        [h \in DOMAIN store
                               \cup {l.transactionHash : l \in other} |->
                            IF h \in DOMAIN store THEN store[h]
                            ELSE StoredFor(CHOOSE w \in Variants : w # v,
                                           CHOOSE l \in other : TRUE)]
        /\ fetchingTxHistory = 0
        /\ runs = EmptyBag
        /\ completed = [w \in Variants |->
                          IF w = v THEN NoneCompleted[w]
                          ELSE [count |-> 1, first |-> Some(transactions),
                                alone |-> TRUE, done |-> {X}]]
        /\ last = [op |-> "init"]
        /\ Launched

NextLoop ==
    \/ HistoryTrigger
    \/ RunStartsReading
    \/ RunChunk
    \/ RunCompletes
    \/ RunRejected
    \/ RunClientRejected

SpecLoop == InitLoop /\ [][NextLoop]_vars

(***************************************************************************)
(* Claims about the loop of a scan (checked under SpecLoop).               *)
(***************************************************************************)
CeilDiv(a, b) == (a + b - 1) \div b

LoopRuns == {r \in BagToSet(runs) : r.phase = "loop"}

\* C21: with STEP_BLOCKS >= 1 the height of a scan strictly decreases in
\* every pass of the loop and never drops below earliestHeightToCheck, and
\* a scan makes at most ceil((initial height - earliestHeightToCheck) /
\* STEP_BLOCKS) passes, whatever logs the queries return.
C21_LoopTerminates ==
    /\ rpcMaxBlockRange >= 1
    /\ \A r \in LoopRuns :
          /\ r.blockHeight >= r.earliestHeightToCheck
          /\ Len(r.ranges) <= CeilDiv(CurrentHeight - r.earliestHeightToCheck,
                                      rpcMaxBlockRange)
          /\ \A k \in 1..Len(r.ranges) :
                /\ r.ranges[k][1] < r.ranges[k][2]
                /\ r.ranges[k][1] >= r.earliestHeightToCheck
                /\ r.ranges[k][2] =
                      (IF k = 1 THEN CurrentHeight ELSE r.ranges[k - 1][1])
          /\ r.ranges # <<>> => r.blockHeight = r.ranges[Len(r.ranges)][1]
    /\ last.op = "chunk" =>
          /\ last.after.blockHeight < last.run.blockHeight
          /\ last.after.blockHeight >= last.run.earliestHeightToCheck

\* a scan made as many passes as the bound allows, over logs of X
C21_Witness ==
    /\ last.op = "completes"
    /\ Len(last.run.ranges) = 2
    /\ last.run.earliestHeightToCheck = 0
    /\ chain[last.run.variant] # {}

\* no transfer of X to itself and no log in the block two ranges share
OrdinaryChain(v) ==
    \A l \in chain[v] : l.from # l.to /\ l.blockNumber # SharedBlock

Quantities(cur) ==
    <<cur.balance, cur.usdcNonce, cur.transferAllowanceUsed,
      cur.htlcAllowanceUsed>>

AboveFloor(r) == r.blockHeight > r.earliestHeightToCheck

\* C22 as stated: a scan makes another pass exactly when its height is above
\* earliestHeightToCheck and one of remaining balance, nonce, transfer
\* allowance and escrow allowance differs from zero, and stops exactly when
\* the height bound is reached or all four are zero.
C22_AsStated ==
    /\ last.op = "chunk" =>
          /\ AboveFloor(last.run)
          /\ \E k \in 1..4 : Quantities(last.run.cur)[k] # 0
    /\ last.op = "completes" =>
          \/ ~AboveFloor(last.run)
          \/ \A k \in 1..4 : Quantities(last.run.cur)[k] = 0

\* C22: a scan makes another pass exactly when its height is above
\* earliestHeightToCheck and one of the four remaining quantities is greater
\* than zero; it stops exactly when the height bound is reached or none of
\* them is greater than zero (a quantity below zero does not keep it going).
C22_PositiveKeepsScanning ==
    /\ last.op = "chunk" =>
          /\ AboveFloor(last.run)
          /\ \E k \in 1..4 : Quantities(last.run.cur)[k] > 0
    /\ last.op = "completes" =>
          \/ ~AboveFloor(last.run)
          \/ \A k \in 1..4 : Quantities(last.run.cur)[k] <= 0

\* a scan stopped above the height bound with a remaining quantity below zero
C22_Witness ==
    /\ last.op = "completes"
    /\ AboveFloor(last.run)
    /\ last.run.ranges # <<>>
    /\ OrdinaryChain(last.run.variant)
    /\ \E k \in 1..4 : Quantities(last.run.cur)[k] < 0

Abs(n) == IF n < 0 THEN -n ELSE n

RECURSIVE SumField(_, _)
SumField(s, f) ==
    IF s = <<>> THEN 0 ELSE Head(s)[f] + SumField(Tail(s), f)

\* C23 as stated: no pass of the loop increases the absolute value of the
\* remaining balance, nonce, transfer allowance or escrow allowance, and
\* none of them crosses zero.
C23_AsStated ==
    last.op = "chunk" =>
        \A k \in 1..4 :
            LET before == Quantities(last.run.cur)[k]
                after == Quantities(last.after.cur)[k]
            IN /\ Abs(after) <= Abs(before)
               /\ before >= 0 => after >= 0
               /\ before <= 0 => after <= 0

\* C23: no pass of the loop increases the remaining nonce or either remaining
\* allowance (each may fall below zero); the remaining balance falls by the
\* values of the incoming logs and rises by the values of the outgoing logs
\* that are counted, so it may move away from zero.
C23_OnlyBalanceRises ==
    last.op = "chunk" =>
        /\ \A k \in 2..4 :
              Quantities(last.after.cur)[k] <= Quantities(last.run.cur)[k]
        /\ last.after.cur.balance =
              last.run.cur.balance - SumField(last.arith, "subtracted")
                                   + SumField(last.arith, "added")

\* a pass raised the remaining balance and took an allowance below zero
C23_Witness ==
    /\ last.op = "chunk"
    /\ last.after.cur.balance > last.run.cur.balance
    /\ last.run.cur.balance >= 0
    /\ last.run.cur.transferAllowanceUsed = 0
    /\ last.after.cur.transferAllowanceUsed < 0
    /\ OrdinaryChain(last.run.variant)

\* the highest block height stored for a transaction of the address in the
\* token of the scan, 0 when there is none
HighestStored(v, address) ==
    LET heights ==
          {transactions[h].blockHeight[1] :
              h \in {k \in DOMAIN transactions :
                       /\ transactions[k].token = TokenOf(v)
                       /\ \/ transactions[k].sender = address
                          \/ transactions[k].recipient = address
                       /\ transactions[k].blockHeight # Undefined}}
    IN IF heights = {} THEN 0
       ELSE CHOOSE m \in heights : \A n \in heights : n <= m

ExpectedEarliest(v, address) ==
    LET floor == IF v = BRIDGED THEN earliestHistoryScanHeight
                 ELSE earliestNativeHistoryScanHeight
        margin == HighestStored(v, address) - 1000
    IN IF floor >= margin THEN floor ELSE margin

RangeStart(r) ==
    IF r.blockHeight - rpcMaxBlockRange >= r.earliestHeightToCheck
    THEN r.blockHeight - rpcMaxBlockRange
    ELSE r.earliestHeightToCheck

C25_AsStated ==
    last.op = "chunk" =>
        \A k \in 1..Len(last.arith) :
            <<last.arith[k].transactionHash, last.arith[k].logIndex>>
                \notin last.run.counted

\* the nonzero logs of X in the range a pass of run r queries
PassLogs(r) ==
    {l \in chain[r.variant] :
        /\ l.to = r.address \/ l.from = r.address
        /\ l.value # 0
        /\ RangeStart(r) <= l.blockNumber /\ l.blockNumber <= r.blockHeight}

\* the entries of the arithmetic of the last pass that belong to the log l
EntriesOfLog(l) ==
    {k \in 1..Len(last.arith) :
        /\ last.arith[k].transactionHash = l.transactionHash
        /\ last.arith[k].logIndex = l.logIndex}

RECURSIVE SumOver(_, _)
SumOver(K, f) ==
    IF K = {} THEN 0
    ELSE LET k == CHOOSE j \in K : TRUE
         IN last.arith[k][f] + SumOver(K \ {k}, f)

\* the remaining nonce after the decrement of the pass of run r
NonceInPass(r) ==
    r.cur.usdcNonce
        - Cardinality({l.transactionHash :
                          l \in {m \in PassLogs(r) : m.from = r.address}})

\* C26: in every pass the remaining nonce is decremented by exactly the
\* number of distinct transactionHashes among the nonzero outgoing logs of
\* the pass (several outgoing logs of one transaction count once), before
\* any balance or allowance adjustment of the pass: whether an outgoing log
\* is counted is decided by the decremented nonce.
C26_NonceByDistinctHash ==
    last.op = "chunk" =>
        /\ last.after.cur.usdcNonce = NonceInPass(last.run)
        /\ \A l \in PassLogs(last.run) :
              l.from = last.run.address =>
                  \A k \in EntriesOfLog(l) :
                      last.arith[k].added =
                          (IF NonceInPass(last.run) <= 0 THEN l.value ELSE 0)

\* a pass over two outgoing logs of one transaction took the nonce from 1 to
\* 0 and counted both logs
C26_Witness ==
    /\ last.op = "chunk"
    /\ last.run.cur.usdcNonce = 1
    /\ last.after.cur.usdcNonce = 0
    /\ \E l, m \in PassLogs(last.run) :
          /\ l.from = X /\ m.from = X /\ l.to # X /\ m.to # X
          /\ l.transactionHash = m.transactionHash
          /\ l.logIndex # m.logIndex
          /\ \A k \in EntriesOfLog(l) \cup EntriesOfLog(m) :
                last.arith[k].added > 0

\* C27 as stated: an outgoing log whose value is deducted from an allowance
\* is deducted from the escrow allowance if and only if the recipient of
\* that log is the HTLC contract, and from the transfer allowance otherwise.
C27_AsStated ==
    last.op = "chunk" =>
        \A l \in PassLogs(last.run) :
            \A k \in EntriesOfLog(l) :
                last.arith[k].htlc + last.arith[k].transfer > 0 =>
                    IF l.to = HtlcOf(last.run.variant)
                    THEN last.arith[k].htlc = l.value
                         /\ last.arith[k].transfer = 0
                    ELSE last.arith[k].transfer = l.value
                         /\ last.arith[k].htlc = 0

\* C27: an outgoing log whose value is deducted from an allowance is
\* deducted from the escrow allowance if and only if a nonzero outgoing log
\* of its transaction in the pass has the HTLC contract as recipient (the
\* funding itself and what the same transaction pays besides, such as the
\* fee), and from the transfer allowance otherwise.
C27_EscrowByTransaction ==
    last.op = "chunk" =>
        \A l \in PassLogs(last.run) :
            \A k \in EntriesOfLog(l) :
                last.arith[k].htlc + last.arith[k].transfer > 0 =>
                    IF \E m \in PassLogs(last.run) :
                          /\ m.transactionHash = l.transactionHash
                          /\ m.from = last.run.address
                          /\ m.to = HtlcOf(last.run.variant)
                    THEN last.arith[k].htlc = l.value
                         /\ last.arith[k].transfer = 0
                    ELSE last.arith[k].transfer = l.value
                         /\ last.arith[k].htlc = 0

\* the fee of an escrow funding was deducted from the escrow allowance, and
\* a transfer to Y from the transfer allowance
C27_Witness ==
    /\ last.op = "chunk"
    /\ \E l \in PassLogs(last.run) :
          /\ l.to = poolAddress
          /\ \E k \in EntriesOfLog(l) : last.arith[k].htlc = l.value
    /\ \E l \in PassLogs(last.run) :
          /\ l.to = Y
          /\ \E k \in EntriesOfLog(l) : last.arith[k].transfer = l.value

\* C28 as stated: in a pass every nonzero incoming log reduces the remaining
\* balance by its value; a nonzero outgoing log changes the remaining
\* balance and an allowance only if the remaining nonce, after the decrement
\* of the pass, is at most 0, and leaves both untouched otherwise.
C28_AsStated ==
    last.op = "chunk" =>
        \A l \in PassLogs(last.run) :
            /\ l.to = last.run.address =>
                  SumOver(EntriesOfLog(l), "subtracted") = l.value
            /\ (l.from = last.run.address /\ NonceInPass(last.run) > 0) =>
                  /\ SumOver(EntriesOfLog(l), "added") = 0
                  /\ SumOver(EntriesOfLog(l), "htlc") = 0
                  /\ SumOver(EntriesOfLog(l), "transfer") = 0
                  /\ l.to # last.run.address =>
                        SumOver(EntriesOfLog(l), "subtracted") = 0

\* the run as the reads left it, had the store held the given known hashes
\* and given the given earliestHeightToCheck
Restarted(r, known, earliest) ==
    [r EXCEPT !.knownHashes = known, !.earliestHeightToCheck = earliest,
              !.blockHeight = CurrentHeight, !.cur = r.reads,
              !.ranges = <<>>, !.counted = {}]

\* earliestHeightToCheck of a scan that finds no stored transaction
ExpectedEarliestOfNone(v) ==
    IF v = BRIDGED THEN earliestHistoryScanHeight
    ELSE earliestNativeHistoryScanHeight

\* C29 as stated: logs of known transactionHashes change the remaining
\* nonce, balance and allowances exactly as logs of unknown transactions
\* do, and the final cursor of a scan does not depend on which transactions
\* were stored: it is the cursor the scan ends with on an empty store.
C29_AsStated ==
    /\ last.op = "chunk" =>
          Quantities(last.after.cur) =
              Quantities(ChunkResult([last.run EXCEPT !.knownHashes = {}]).cur)
    /\ last.op = "completes" =>
          Quantities(last.run.cur) =
              Quantities(ScanToEnd(Restarted(last.run, {},
                            ExpectedEarliestOfNone(last.run.variant))).cur)

\* C29: logs of known transactionHashes change the remaining nonce, balance
\* and allowances exactly as logs of unknown transactions do; the final
\* cursor of a scan depends on the stored transactions only through
\* earliestHeightToCheck: it is the cursor the scan ends with when no hash
\* is known and earliestHeightToCheck is the same.
C29_KnownOnlySuppresses ==
    /\ last.op = "chunk" =>
          Quantities(last.after.cur) =
              Quantities(ChunkResult([last.run EXCEPT !.knownHashes = {}]).cur)
    /\ last.op = "completes" =>
          Quantities(last.run.cur) =
              Quantities(ScanToEnd(Restarted(last.run, {},
                            last.run.earliestHeightToCheck)).cur)

\* a scan with a known hash ran to its end after a pass over the logs of
\* that hash
C29_Witness ==
    /\ last.op = "completes"
    /\ last.run.knownHashes # {}
    /\ \E c \in last.run.counted : c[1] \in last.run.knownHashes
    /\ \E k \in 1..4 : Quantities(last.run.cur)[k] # Quantities(last.run.reads)[k]

\* C30 as stated (checked under SpecClassify): a chunk persists a
\* Transaction with state Failed for hash h only if the chain holds no
\* transfer log of h involving the scanned address other than the fee log;
\* a transaction whose primary transfer has value zero and whose fee log is
\* nonzero is not reported as Failed.
C30_AsStated ==
    cOut.op = "chunk" =>
        \A h \in DOMAIN cOut.store :
            cOut.store[h].state = TransactionState.FAILED =>
                ~\E l \in cIn.logs :
                    /\ l.transactionHash = h
                    /\ l.from = cIn.address \/ l.to = cIn.address
                    /\ l.logIndex # cOut.store[h].logIndex

(***************************************************************************)
(* The balance caches of a removed address (lines 173-234, 338-347).       *)
(***************************************************************************)
\* C32 as stated: from the moment the address watcher removes an address
\* until it is added again, neither balance cache holds an entry for it and
\* no balance patch is emitted for it, even when a refresh of that address
\* was in flight when it was removed.
C32_AsStated ==
    /\ \A a \in UserAddresses \ subscribedAddresses :
          a \notin DOMAIN balances \cup DOMAIN nativeBalances
    /\ last.op = "refreshResolved" =>
          DOMAIN last.patches \subseteq subscribedAddresses

(***************************************************************************)
(* A refresh whose Promise.all is rejected (lines 175, 202).               *)
(***************************************************************************)
\* C34: if the balance fetch of any address of one refresh call is rejected,
\* the call changes no cache entry and emits no patch for any address of the
\* call, including those whose fetch succeeded: the call ends at its await.
C34_RejectedRefreshChangesNothing ==
    [][(last'.op = "refreshRejected" /\ tasks' # tasks) =>
          /\ balances' = balances
          /\ nativeBalances' = nativeBalances
          /\ last'.patches = EmptyMap
          /\ tasks' = tasks (-) SetToBag({last'.task})
    ]_vars

\* the rejected call was for two addresses, one of which has no cache entry:
\* its balance, had it arrived, would have been set and patched
C34_Witness ==
    /\ last.op = "refreshRejected"
    /\ Len(last.task.addresses) = 2
    /\ \E i \in 1..2 :
          last.task.addresses[i] \notin DOMAIN CacheOf(last.task.variant)
    /\ \E i \in 1..2 :
          last.task.addresses[i] \in DOMAIN CacheOf(last.task.variant)

(***************************************************************************)
(* Replacement of the live event filters (lines 240-258).                  *)
(***************************************************************************)
\* C35: when subscribe replaces the live event filter of a token contract,
\* the new filter is installed before the previous one is removed, so from
\* the first installation on a filter is installed for that contract at
\* every moment, whatever the sequence of subscribe calls.
C35_FilterReplacedWithoutGap ==
    /\ \A v \in Variants :
          currentFilter[v] # Undefined =>
              BagIn(currentFilter[v][1], filters[v])
    /\ last.op = "subscribeThen" =>
          \A v \in Variants :
             /\ \A k \in 1..Len(last.steps[v]) :
                   last.steps[v][k] # EmptyBag
             /\ BagIn(currentFilter[v][1], last.steps[v][1])
             /\ last.previous[v] # Undefined =>
                   /\ Len(last.steps[v]) = 2
                   /\ BagIn(last.previous[v][1], last.steps[v][1])
                   /\ filters[v] = last.steps[v][2]

\* a callback replaced the only installed filter of the bridged token by a
\* filter of another address set
C35_Witness ==
    /\ last.op = "subscribeThen"
    /\ last.previous[BRIDGED] # Undefined
    /\ last.previous[BRIDGED] # currentFilter[BRIDGED]
    /\ BagCardinality(filters[BRIDGED]) = 1
    /\ BagCardinality(last.steps[BRIDGED][1]) = 2

(***************************************************************************)
(* Live transfer events the listener drops (lines 265-279).                *)
(***************************************************************************)
\* C37: a live transfer event of value exactly zero leaves the transaction
\* store and both balance caches unchanged and starts no block, receipt or
\* balance fetch.
C37_ZeroValueEventDropped ==
    [][(last'.op = "listener" /\ last'.log.value = 0) =>
          /\ ~last'.proceeds
          /\ transactions' = transactions
          /\ balances' = balances
          /\ nativeBalances' = nativeBalances
          /\ tasks' = tasks
    ]_vars

\* the event of value zero was paid to a cached address in a transaction the
\* store does not hold: only its value stopped the listener
C37_Witness ==
    /\ last.op = "listener"
    /\ last.log.value = 0
    /\ last.log.to \in DOMAIN balances
    /\ last.log.transactionHash \notin DOMAIN transactions
    /\ ~(last.variant = NATIVE /\ last.log.from = swapPoolContract)

(***************************************************************************)
(* SpecGone: live transfer events while the address X is removed from the  *)
(* address store and added again; the filter installed for it stays        *)
(* (lines 338-349).                                                        *)
(***************************************************************************)
InitGone ==
    /\ cIn = [variant |-> BRIDGED, environment |-> ENV_MAIN, address |-> X,
              knownHashes |-> {}, logs |-> {}]
    /\ cOut = NoOutput
    /\ chainBalance = {0}
    /\ \E S \in SUBSET {X} :
          /\ addressInfos = S /\ subscribedAddresses = S
          /\ balances = [a \in S |-> 0]
          /\ nativeBalances = [a \in S |-> 0]
          /\ filters = [v \in Variants |->
                          IF S = {} THEN EmptyBag ELSE SetToBag({S})]
          /\ currentFilter = [v \in Variants |->
                                IF S = {} THEN Undefined ELSE Some(S)]
    /\ fetchedAddresses = {} /\ fetchedNativeAddresses = {}
    /\ activeAddress = NoValue
    /\ tasks = EmptyBag
    /\ transactions = EmptyMap /\ fetchingTxHistory = 0
    /\ runs = EmptyBag /\ chain = NoLogs /\ completed = NoneCompleted
    /\ last = [op |-> "init"]
    /\ Launched

NextGone ==
    \/ AddAddress(X)
    \/ RemoveAddress(X)
    \/ AddressWatcher
    \/ SubscribeThen
    \/ SubscribeRejected
    \/ TransactionListener
    \/ ListenerResolved
    \/ ListenerRejected
    \/ RefreshResolved
    \/ RefreshRejected

SpecGone == InitGone /\ [][NextGone]_vars

\* a refresh of the address a is in flight
RefreshInFlight(a) ==
    \E t \in BagToSet(tasks) :
        /\ t.type = "refresh"
        /\ \E i \in 1..Len(t.addresses) : t.addresses[i] = a

\* C36 as stated: after the address watcher has removed an address and while
\* no refresh of it is in flight, a live transfer event whose sender and
\* recipient are both outside the watch set adds nothing to the transaction
\* store and starts no balance fetch (the listener returns at line 266),
\* although the installed filter may still name the removed address.
C36_AsStated ==
    [][(/\ last'.op = "listener"
        /\ last'.log.from \notin subscribedAddresses
        /\ last'.log.to \notin subscribedAddresses
        /\ ~RefreshInFlight(last'.log.from)
        /\ ~RefreshInFlight(last'.log.to))
          => /\ ~last'.proceeds
             /\ tasks' = tasks
             /\ transactions' = transactions
    ]_vars

(***************************************************************************)
(* SpecStore: the writers of the transaction store side by side.  X and Y  *)
(* are subscribed and Y is the active address; Y was funded by X in h5 and *)
(* pays 1 bridged USDC to X in h1, with a fee of 1 to the relay pool.  The *)
(* history scans of Y and the live listener both meet h1.                  *)
(***************************************************************************)
sP == [transactionHash |-> "h1", logIndex |-> 0, from |-> Y, to |-> X,
       value |-> 1, blockNumber |-> CurrentHeight]
sF == [transactionHash |-> "h1", logIndex |-> 1, from |-> Y,
       to |-> poolAddress, value |-> 1, blockNumber |-> CurrentHeight]
sA == [transactionHash |-> "h5", logIndex |-> 0, from |-> X, to |-> Y,
       value |-> 2, blockNumber |-> 1003]

\* calls of the listener and refreshes in flight
MaxListening == 1

InitStore ==
    /\ cIn = [variant |-> BRIDGED, environment |-> ENV_MAIN, address |-> Y,
              knownHashes |-> {}, logs |-> {}]
    /\ cOut = NoOutput
    /\ chainBalance = {0}
    /\ addressInfos = UserAddresses /\ subscribedAddresses = UserAddresses
    /\ activeAddress = Y
    /\ balances = [a \in UserAddresses |-> 0]
    /\ nativeBalances = [a \in UserAddresses |-> 0]
    /\ filters = [v \in Variants |-> SetToBag({UserAddresses})]
    /\ currentFilter = [v \in Variants |-> Some(UserAddresses)]
    /\ fetchedAddresses = {} /\ fetchedNativeAddresses = {}
    /\ tasks = EmptyBag
    /\ chain = [v \in Variants |-> IF v = BRIDGED THEN {sA, sP, sF} ELSE {}]
    /\ transactions = EmptyMap /\ fetchingTxHistory = 0
    /\ runs = EmptyBag /\ completed = NoneCompleted
    /\ last = [op |-> "init"]
    /\ Launched

StoreListener == TransactionListenerUpTo(MaxListening)

\* No fetch is rejected here.
NextStore ==
    \/ HistoryTrigger
    \/ RunStarts
    \/ RunChunk
    \/ RunCompletes
    \/ StoreListener
    \/ ListenerResolved
    \/ RefreshResolved

SpecStore == InitStore /\ [][NextStore]_vars

\* the record tx is final and carries a fee or a lifecycle event
IsEnriched(tx) ==
    /\ tx.state \in {TransactionState.MINED, TransactionState.FAILED}
    /\ (tx.fee # Undefined \/ tx.event # Undefined)

\* C31 as stated: once the transaction store holds a Mined or Failed record
\* for a hash that carries a fee or a lifecycle event, no later write of a
\* history scan or of the live transfer listener replaces it with a record
\* of that hash without that fee or event, under every interleaving of
\* scans and listener callbacks.
C31_AsStated ==
    [][\A h \in DOMAIN transactions :
          IsEnriched(transactions[h]) =>
              /\ h \in DOMAIN transactions'
              /\ transactions[h].fee # Undefined =>
                    transactions'[h].fee = transactions[h].fee
              /\ transactions[h].event # Undefined =>
                    transactions'[h].event = transactions[h].event
    ]_vars

(***************************************************************************)
(* SpecOverlap: refreshes of X that overlap while the balance of X on      *)
(* chain changes.  Here chainBalance holds the one balance the addresses   *)
(* have on chain now, a refresh reads it when the node answers balanceOf,  *)
(* and its continuation runs when the answer has arrived.  Of the calls in *)
(* flight the node answers those made earlier first; the answers arrive in *)
(* any order.                                                              *)
(***************************************************************************)
\* a refresh whose balanceOf calls were answered: accounts is what they
\* returned, order its place among the answered calls in flight, overtaken
\* whether a refresh answered later has completed for one of its addresses
ServedTask(t, accounts, order) ==
    [type |-> "served", variant |-> t.variant, addresses |-> t.addresses,
     accounts |-> accounts, order |-> order, overtaken |-> FALSE]

ServedTasks == {t \in BagToSet(tasks) : t.type = "served"}

NextOrder ==
    IF ServedTasks = {} THEN 1
    ELSE 1 + (CHOOSE m \in {t.order : t \in ServedTasks} :
                 \A t \in ServedTasks : t.order <= m)

SharesAddress(s, t) ==
    \E i \in 1..Len(s.addresses), j \in 1..Len(t.addresses) :
        s.addresses[i] = t.addresses[j]

\* the balance of the addresses on chain moves (a transfer was mined)
BalanceChanges ==
    /\ \E b \in BalanceValues \ chainBalance : chainBalance' = {b}
    /\ last' = [op |-> "step"]
    /\ UNCHANGED <<launchVars, cIn, cOut, addressInfos, activeAddress,
                   subscribedAddresses, balances, nativeBalances, filters,
                   currentFilter, tasks, histVars>>

\* lines 161-171: the node answers the balanceOf calls of one refresh with
\* the balance on chain
BalanceOfAnswered ==
    \E t \in BagToSet(tasks) :
        /\ t.type = "refresh"
        /\ \E accounts \in [1..Len(t.addresses) -> chainBalance] :
              tasks' = (tasks (-) SetToBag({t}))
                       (+) SetToBag({ServedTask(t, accounts, NextOrder)})
        /\ last' = [op |-> "step"]
        /\ UNCHANGED <<launchVars, cIn, cOut, addressInfos, activeAddress,
                       subscribedAddresses, balances, nativeBalances,
                       filters, currentFilter, chainBalance, histVars>>

\* the tasks left in flight when the answered refresh t has completed,
\* their places counted anew
Overtakes(t) ==
    LET rest == tasks (-) SetToBag({t})
        place(s) == Cardinality({u \in BagToSet(rest) :
                                   u.type = "served" /\ u.order <= s.order})
        mark(s) == IF s.type # "served" THEN s
                   ELSE [s EXCEPT
                           !.order = place(s),
                           !.overtaken =
                               \/ @
                               \/ /\ s.variant = t.variant
                                  /\ s.order < t.order
                                  /\ SharesAddress(s, t)]
        marked == {mark(s) : s \in BagToSet(rest)}
    IN [m \in marked |->
          LET from == {s \in BagToSet(rest) : mark(s) = m}
          IN BagCardinality([s \in from |-> rest[s]])]

\* a continuation that drops the balances of a refresh once a refresh
\* answered later has completed
RefreshContinuesUnlessOvertaken ==
    \E t \in BagToSet(tasks) :
        /\ t.type = "served"
        /\ LET newBalances == NewBalances(t.addresses, t.accounts,
                                          Len(t.addresses))
               r == CompareAndPatch(IF t.variant = BRIDGED THEN balances
                                    ELSE nativeBalances,
                                    IF t.overtaken THEN EmptyMap
                                    ELSE newBalances)
           IN /\ balances' = IF t.variant = BRIDGED THEN r.cache
                             ELSE balances
              /\ nativeBalances' = IF t.variant = NATIVE THEN r.cache
                                   ELSE nativeBalances
              /\ last' = [op |-> "refreshResolved", variant |-> t.variant,
                          newBalances |-> newBalances,
                          patches |-> r.patches, overtaken |-> t.overtaken]
        /\ tasks' = Overtakes(t)
        /\ UNCHANGED <<launchVars, cIn, cOut, addressInfos, activeAddress,
                       subscribedAddresses, filters, currentFilter,
                       chainBalance, histVars>>

\* lines 176-197 / 203-226: the answers have arrived and the continuation
\* of the refresh runs
RefreshContinues ==
    \E t \in BagToSet(tasks) :
        /\ t.type = "served"
        /\ LET newBalances == NewBalances(t.addresses, t.accounts,
                                          Len(t.addresses))
               r == CompareAndPatch(IF t.variant = BRIDGED THEN balances
                                    ELSE nativeBalances, newBalances)
           IN /\ balances' = IF t.variant = BRIDGED THEN r.cache
                             ELSE balances
              /\ nativeBalances' = IF t.variant = NATIVE THEN r.cache
                                   ELSE nativeBalances
              /\ last' = [op |-> "refreshResolved", variant |-> t.variant,
                          newBalances |-> newBalances,
                          patches |-> r.patches, overtaken |-> t.overtaken]
        /\ tasks' = Overtakes(t)
        /\ UNCHANGED <<launchVars, cIn, cOut, addressInfos, activeAddress,
                       subscribedAddresses, filters, currentFilter,
                       chainBalance, histVars>>

InitOverlap ==
    /\ cIn = [variant |-> BRIDGED, environment |-> ENV_MAIN, address |-> X,
              knownHashes |-> {}, logs |-> {}]
    /\ cOut = NoOutput
    /\ chainBalance = {0}
    /\ addressInfos = {X} /\ subscribedAddresses = {X}
    /\ balances = [a \in {X} |-> 0]
    /\ nativeBalances = [a \in {X} |-> 0]
    /\ filters = [v \in Variants |-> SetToBag({{X}})]
    /\ currentFilter = [v \in Variants |-> Some({X})]
    /\ fetchedAddresses = {} /\ fetchedNativeAddresses = {}
    /\ activeAddress = NoValue
    /\ tasks = EmptyBag
    /\ transactions = EmptyMap /\ fetchingTxHistory = 0
    /\ runs = EmptyBag /\ chain = NoLogs /\ completed = NoneCompleted
    /\ last = [op |-> "init"]
    /\ Launched

NextOverlap ==
    \/ SendTransaction
    \/ BalanceChanges
    \/ BalanceOfAnswered
    \/ RefreshContinues
    \/ RefreshRejected

SpecOverlap == InitOverlap /\ [][NextOverlap]_vars

\* C33: two overlapping refreshes of one address are not serialized.  Every
\* refresh that completes sets the cache to the balance it read and patches
\* it when it differs from the cached one, also when a refresh that read
\* later has completed before it; so the state of C33_Witness is reached.
C33_StaleRefreshWins ==
    [][(last'.op = "refreshResolved" /\ tasks' # tasks) =>
          \A a \in DOMAIN last'.newBalances :
             /\ a \in DOMAIN CacheAfter(last'.variant)
             /\ CacheAfter(last'.variant)[a] = last'.newBalances[a]
             /\ a \in DOMAIN last'.patches <=>
                   MapGet(CacheOf(last'.variant), a)
                      # Some(last'.newBalances[a])
    ]_vars

\* both refreshes of X have completed, none is in flight, and the cached and
\* last patched bridged balance of X is the one read by the refresh that
\* read first, which is not the balance X has on chain
C33_Witness ==
    /\ last.op = "refreshResolved"
    /\ last.variant = BRIDGED
    /\ last.overtaken
    /\ tasks = EmptyBag
    /\ X \in DOMAIN last.patches
    /\ balances[X] = last.patches[X]
    /\ balances[X] \notin chainBalance

(***************************************************************************)
(* SpecRetry: the scans of SpecScan under fair scheduling.  A history      *)
(* trigger occurs whenever the guards of lines 359 and 656 would let it    *)
(* start a scan, and the continuation of a scan runs once its fetches have *)
(* been answered; fetches may be rejected.                                 *)
(***************************************************************************)
\* lines 422 / 719: a scan is in its loop and the loop condition holds, so
\* the next chunk can be scanned (the guard of RunChunk)
RunChunkEnabled ==
    \E r \in BagToSet(runs) : r.phase = "loop" /\ LoopCondition(r)

\* the weak fairness of RunChunk, stated with its guard
RunChunkFair == <>[]RunChunkEnabled => []<><<RunChunk>>_vars

SpecRetry ==
    /\ InitScan
    /\ [][NextScan]_vars
    /\ WF_vars(HistoryTrigger)
    /\ WF_vars(RunStarts)
    /\ RunChunkFair
    /\ WF_vars(RunCompletes)

\* the scans of SpecRetry when getPolygonClient and getPoolAddress are
\* never rejected
NextRetryInChain ==
    \/ HistoryTrigger
    \/ RunStarts
    \/ RunChunk
    \/ RunCompletes
    \/ RunRejected

SpecRetryInChain ==
    /\ InitScan
    /\ [][NextRetryInChain]_vars
    /\ WF_vars(HistoryTrigger)
    /\ WF_vars(RunStarts)
    /\ RunChunkFair
    /\ WF_vars(RunCompletes)

\* from some point on no fetch of a scan is rejected
FailuresEnd == <>[][~(RunRejected \/ RunClientRejected)]_vars

\* C38 as stated: if fetches fail only finitely often and history triggers
\* for the active address keep occurring, then for each token variant a
\* scan of the active address eventually runs to its successful end, and
\* the counter of scans in flight eventually returns to 0 (and stays there
\* once the scans are done).
C38_AsStated ==
    FailuresEnd =>
        /\ \A v \in Variants : <>(activeAddress \in completed[v].done)
        /\ <>[](fetchingTxHistory = 0)


(***************************************************************************)
(* SpecLaunch: launchPolygon is called again and again while the address   *)
(* store changes.  A change of the address store runs the callback of      *)
(* every installed watcher once, in the order the watchers were installed; *)
(* a history callback runs until its first await.                          *)
(***************************************************************************)
MaxLaunches == 3

\* launchPolygon without the guard of line 314
LaunchPolygonUnguarded ==
    /\ launches < MaxLaunches
    /\ isLaunched' = TRUE
    /\ watchers' = watchers \o WatchersOfLaunch
    /\ launches' = launches + 1
    /\ last' = [op |-> "launchPolygon", wasLaunched |-> isLaunched]
    /\ UNCHANGED <<cIn, cOut, subVars, histVars>>

\* lines 313-315, 324, 357, 654: a call of launchPolygon
LaunchPolygon ==
    /\ launches < MaxLaunches
    /\ IF isLaunched
       THEN UNCHANGED <<isLaunched, watchers>>
       ELSE /\ isLaunched' = TRUE
            /\ watchers' = watchers \o WatchersOfLaunch
    /\ launches' = launches + 1
    /\ last' = [op |-> "launchPolygon", wasLaunched |-> isLaunched]
    /\ UNCHANGED <<cIn, cOut, subVars, histVars>>

\* what the callbacks of one change work on: the module state, the scans
\* and the counter, and how many callbacks of each kind have run
FlushState ==
    [w |-> WatcherState, runs |-> runs, fetching |-> fetchingTxHistory,
     removed |-> {}, reconciles |-> 0,
     callbacks |-> [v \in Variants |-> 0],
     started |-> [v \in Variants |-> 0]]

\* lines 325-353: one run of the callback of the address watcher
AddressCallback(f, keys) ==
    LET w == WatcherBody([f.w EXCEPT !.newAddresses = <<>>,
                                     !.removedAddresses = f.w.subscribed],
                         keys)
    IN [f EXCEPT !.w = w,
                 !.removed = @ \cup w.removedAddresses,
                 !.reconciles = @ + 1]

\* lines 358-376 / 655-673: one run of the callback of the history watcher
\* of token v, until its first await
HistoryCallback(f, v, address) ==
    LET marked == IF v = BRIDGED THEN f.w.fetched ELSE f.w.fetchedNative
        g == [f EXCEPT !.callbacks[v] = @ + 1]
    IN IF address = NoValue \/ address \in marked THEN g
       ELSE [g EXCEPT
               !.w = IF v = BRIDGED
                     THEN [@ EXCEPT !.fetched = @ \cup {address}]
                     ELSE [@ EXCEPT !.fetchedNative = @ \cup {address}],
               !.runs = @ (+) SetToBag(
                           {HistoryWatcher(v, address, transactions,
                                           completed[v].count + 1)}),
               !.fetching = @ + 1,
               !.started[v] = @ + 1]

RECURSIVE Flush(_, _, _, _)
\* the callbacks of the installed watchers, one after the other
Flush(f, installed, keys, address) ==
    IF installed = <<>> THEN f
    ELSE Flush(IF Head(installed) = ADDRESS_WATCHER
               THEN AddressCallback(f, keys)
               ELSE HistoryCallback(f, Head(installed), address),
               Tail(installed), keys, address)

\* the scans of token v in the bag b
ScansIn(b, v) ==
    LET S == {r \in BagToSet(b) : r.variant = v}
    IN IF S = {} THEN 0 ELSE BagCardinality([r \in S |-> b[r]])

\* addressStore changes to the addresses infos with the active address
\* active, and the callbacks of the installed watchers run
AddressStoreChanges(infos, active) ==
    LET f == Flush(FlushState, watchers, Keys(infos), active)
    IN /\ BagCardinality(f.w.tasks) <= MaxTasks
       /\ f.fetching <= MaxFetching
       /\ \A v \in Variants :
             /\ ScansIn(f.runs, v) <= MaxRuns
             /\ f.started[v] > 0 => completed[v].count < MaxScans
       /\ addressInfos' = infos
       /\ activeAddress' = active
       /\ subscribedAddresses' = f.w.subscribed
       /\ fetchedAddresses' = f.w.fetched
       /\ fetchedNativeAddresses' = f.w.fetchedNative
       /\ balances' = f.w.balances
       /\ nativeBalances' = f.w.nativeBalances
       /\ tasks' = f.w.tasks
       /\ runs' = f.runs
       /\ fetchingTxHistory' = f.fetching
       /\ completed' = [v \in Variants |->
                          [completed[v] EXCEPT !.done = @ \ f.removed]]
       /\ last' = [op |-> "storeChange", reconciles |-> f.reconciles,
                   callbacks |-> f.callbacks, started |-> f.started,
                   trace |-> f.w.trace]
       /\ UNCHANGED <<launchVars, cIn, cOut, filters, currentFilter,
                      chainBalance, transactions, chain>>

\* login or a new account: the address a is added and becomes active
AddressAdded(a) ==
    /\ a \notin addressInfos
    /\ AddressStoreChanges(addressInfos \cup {a}, a)

\* logout of the address a
AddressRemoved(a) ==
    /\ a \in addressInfos
    /\ AddressStoreChanges(addressInfos \ {a},
                           IF activeAddress = a THEN NoValue
                           ELSE activeAddress)

\* the address a of the store becomes the active address
AddressSelected(a) ==
    /\ a \in addressInfos /\ activeAddress # a
    /\ AddressStoreChanges(addressInfos, a)

InitLaunch ==
    /\ cIn = [variant |-> BRIDGED, environment |-> ENV_MAIN, address |-> X,
              knownHashes |-> {}, logs |-> {}]
    /\ cOut = NoOutput
    /\ ModuleLoaded
    /\ addressInfos \in SUBSET {X} /\ activeAddress = NoValue
    /\ chainBalance = {0}
    /\ chain = [v \in Variants |-> IF v = BRIDGED THEN {bA, bH} ELSE {}]
    /\ transactions = EmptyMap
    /\ fetchingTxHistory = 0
    /\ runs = EmptyBag /\ completed = NoneCompleted
    /\ isLaunched = FALSE /\ watchers = <<>> /\ launches = 0
    /\ last = [op |-> "init"]

NextLaunch ==
    \/ LaunchPolygon
    \/ AddressAdded(X)
    \/ AddressRemoved(X)
    \/ AddressSelected(X)
    \/ SubscribeThen
    \/ RefreshResolved
    \/ RunStarts
    \/ RunCompletes

SpecLaunch == InitLaunch /\ [][NextLaunch]_vars

\* how often the watcher kind is installed
Installed(kind) ==
    Cardinality({i \in 1..Len(watchers) : watchers[i] = kind})

\* C39: launchPolygon is idempotent.  A call while isLaunched is set
\* installs no watcher and changes no module state; the address watcher and
\* the history watcher of each token are installed at most once; and one
\* change of the address store runs the callback of the address watcher at
\* most once and starts at most one history scan per token.
C39_LaunchIsIdempotent ==
    [][/\ (last'.op = "launchPolygon" /\ isLaunched) =>
             UNCHANGED <<isLaunched, watchers, subVars, histVars>>
       /\ \A kind \in {ADDRESS_WATCHER} \cup Variants :
             Installed(kind)' <= 1
       /\ last'.op = "storeChange" =>
             /\ last'.reconciles <= 1
             /\ \A v \in Variants :
                   last'.callbacks[v] <= 1 /\ last'.started[v] <= 1
    ]_vars

\* after a repeated call of launchPolygon a login ran the address watcher
\* once (it subscribed the new address) and started one scan per token
C39_Witness ==
    /\ launches >= 2
    /\ last.op = "storeChange"
    /\ last.reconciles = 1
    /\ last.trace # <<>>
    /\ \A v \in Variants : last.callbacks[v] = 1 /\ last.started[v] = 1

====
